---- MODULE Spec2Model ----
(***************************************************************************)
(* A model of the StreamDAB enhancement layer of ODR-AudioEnc:             *)
(*   - EnhancedStreamProcessor (enhanced_stream.h / the stream part of     *)
(*     src/src/security_utils.cpp): the connection state machine, the      *)
(*     monitor thread, get_samples and the health accessors;               *)
(*   - ThaiDLSProcessor / ThaiCharsetConverter (src/src/thai_metadata.cpp):*)
(*     the DLS encoder and the display-width arithmetic it rests on.       *)
(*                                                                         *)
(* Threads of the stream processor are modelled by program counters:       *)
(*   ctrl_pc  - the thread calling initialize/start_stream/stop_stream     *)
(*   mon_pc   - the monitor thread (monitor_stream)                        *)
(*   audio_pc - the single producer calling get_samples                    *)
(* The accessors (get_quality_metrics, get_health_issues) are single       *)
(* steps of a fourth, stateless thread "api".                              *)
(***************************************************************************)
EXTENDS Integers, Sequences, FiniteSets, TLC

(***************************************************************************)
(* Bounds of the model.                                                    *)
(***************************************************************************)
\* the longest fallback list a configuration is drawn with
MaxFallbacks == 2
\* get_samples calls that return data, per behaviour
MaxBlocks == 1
\* cap on metrics_.reconnect_count (successful connection attempts)
MaxReconnectCount == 2
\* longest input text (in codepoints) handed to the DLS encoder
MaxTextLen == 3
\* largest DLS segment length a ThaiDLSProcessor is constructed with
MaxSegLen == 2
\* threads calling process_raw_metadata on one ThaiMetadataProcessor
MaxMetaThreads == 2
\* calls of process_raw_metadata begun, per behaviour
MaxMetaCalls == 2
MaxGainBlocks == 4
MaxHistoryBlocks == 102

(***************************************************************************)
(* Program constants.                                                      *)
(***************************************************************************)
\* constexpr uint8_t DAB_THAI_CHARSET = 0x0E
DAB_THAI_CHARSET == 14
\* constexpr size_t MAX_DLS_LENGTH_THAI = 128
MAX_DLS_LENGTH_THAI == 128
\* the Thai Unicode block, 0x0E00..0x0E7F
THAI_BLOCK_START == 3584
THAI_BLOCK_END == 3711
\* size_t rms_history_size_ = 100
rms_history_size_ == 100
\* int16_t full scale: normalized = sample / 32768.0
FullScale == 32768
\* fixed-point unit of the gain values: the double 1.0 is GainOne
GainOne == 100000

VARIABLES
    \* ---- EnhancedStreamProcessor fields
    config_,                 \* StreamConfig
    vlc_input_,              \* unique_ptr<VLCInput>: "null" or "input"
    running_,                \* atomic<bool>
    connected_,              \* atomic<bool>
    current_fallback_index_, \* atomic<int>: -1 = primary
    monitor_thread_,         \* std::thread: "none" or "joinable"
    metrics_mutex_,          \* owner of metrics_mutex_: "free" or a thread
    metrics_,                \* StreamQualityMetrics (last_audio: see since_last_audio)
    since_last_audio,        \* steady_clock::now() - metrics_.last_audio, in seconds
    since_last_sound,        \* seconds since the connection last carried non-silent audio
    rms_history_,            \* vector<double>
    current_gain_,           \* in units of 1/GainOne
    target_gain_,            \* in units of 1/GainOne
    \* ---- threads
    ctrl_pc,                 \* "idle" | "joining" (inside monitor_thread_.join())
    mon_pc,                  \* position of monitor_stream
    next_index,              \* monitor_stream's local next_index
    cycle,                   \* the reconnect cycle in progress: where it started, what it tried
    audio_pc,                \* position of get_samples
    samples,                 \* the caller's vector<int16_t>
    \* ---- observations
    last_call,               \* the call that returned in the last step, if one did:
                             \* its result, and what it tried on the input
    blocks_read,             \* number of get_samples calls that returned data
    after_stop,              \* what the monitor did since stop_stream cleared running_
    metrics_access,          \* the access to the metrics group made in the last step, if any
    \* ---- ThaiDLSProcessor
    max_segment_length_,
    scrolling_enabled_,
    current_segment_,
    dls_text,                \* the last text given to process_thai_text
    dls_out,                 \* what it returned (bytes)
    dls_call,                \* how that call ended: "none" yet, "returned", "threw"
    \* ---- ThaiCharsetConverter, ThaiUtils (static functions)
    util_call,               \* the last call of one of them: arguments and result
    \* ---- ThaiMetadataProcessor
    plain_char_signed,       \* whether plain char is signed in this build
    stats_,                  \* ProcessingStats (the counters)
    meta_pc,                 \* position of each thread inside process_raw_metadata
    meta_reg,                \* its locals: is_thai_content, whether the conversion
                             \* threw, the counter value it has loaded
    meta_call,               \* the call that began or returned in the last step, if any
    meta_done                \* calls of process_raw_metadata completed, and those of
                             \* them that detected Thai content

streamVars == <<config_, vlc_input_, running_, connected_, current_fallback_index_,
                monitor_thread_, metrics_mutex_, metrics_, since_last_audio, since_last_sound,
                rms_history_, current_gain_, target_gain_, ctrl_pc, mon_pc,
                next_index, cycle, audio_pc, samples, last_call,
                blocks_read, after_stop, metrics_access>>

dlsVars == <<max_segment_length_, scrolling_enabled_, current_segment_, dls_text, dls_out,
             dls_call>>

metaVars == <<plain_char_signed, stats_, meta_pc, meta_reg, meta_call, meta_done>>

textVars == <<dlsVars, util_call, metaVars>>

vars == <<streamVars, textVars>>

(***************************************************************************)
(* Small helpers.                                                          *)
(***************************************************************************)
Min(a, b) == IF a <= b THEN a ELSE b
Max(a, b) == IF a >= b THEN a ELSE b
Abs(a) == IF a < 0 THEN -a ELSE a

\* C++ integer conversion and integer division truncate toward zero
TruncDiv(a, b) == IF a >= 0 THEN a \div b ELSE -((-a) \div b)

RECURSIVE SumSquares(_)
SumSquares(s) == IF s = <<>> THEN 0 ELSE Head(s) * Head(s) + SumSquares(Tail(s))

\* floor(sqrt(n)) by bisection on [lo, hi)
RECURSIVE ISqrtIn(_, _, _)
ISqrtIn(n, lo, hi) ==
    IF hi - lo <= 1 THEN lo
    ELSE LET mid == (lo + hi) \div 2
         IN  IF mid * mid <= n THEN ISqrtIn(n, mid, hi) ELSE ISqrtIn(n, lo, mid)

ISqrt(n) == ISqrtIn(n, 0, FullScale + 1)

(***************************************************************************)
(* URLs and configurations.                                                *)
(***************************************************************************)
PrimaryURL == "P"
FallbackNames == <<"F0", "F1", "F2", "F3">>
AllURLs == {PrimaryURL} \cup {FallbackNames[i] : i \in 1..Len(FallbackNames)}

\* StreamConfig: the fields the stream processor reads
Configs ==
    { [primary_url |-> PrimaryURL,
       fallback_urls |-> SubSeq(FallbackNames, 1, n),
       max_reconnects |-> 1,
       silence_timeout_s |-> 2,
       enable_normalization |-> TRUE,
       silence_threshold_db |-> -40,
       target_level_db |-> -23] : n \in 0..MaxFallbacks }

\* config_.fallback_urls[i], indexed from 0 as in the source
FallbackAt(i) == config_.fallback_urls[i + 1]
NumFallbacks == Len(config_.fallback_urls)

ConfiguredURLs == {config_.primary_url} \cup {FallbackAt(i) : i \in 0..(NumFallbacks - 1)}

\* get_current_url()
get_current_url ==
    IF current_fallback_index_ = -1 THEN config_.primary_url
    ELSE IF current_fallback_index_ < NumFallbacks THEN FallbackAt(current_fallback_index_)
    ELSE ""

(***************************************************************************)
(* Audio arithmetic.  Doubles are kept in fixed point: a level (rms, peak) *)
(* is the integer below it in int16 units, so that the normalized value of *)
(* the source is level / FullScale; a gain is in units of 1 / GainOne.     *)
(***************************************************************************)
\* pow(10.0, config_.target_level_db / 20.0) in int16 units, for the -23 dB of the
\* configurations drawn: 0.0707946 * 32768
TargetRms == 2320

calculate_rms(s) ==
    IF s = <<>> THEN 0 ELSE ISqrt(SumSquares(s) \div Len(s))

RECURSIVE MaxAbs(_)
MaxAbs(s) == IF s = <<>> THEN 0 ELSE Max(Abs(Head(s)), MaxAbs(Tail(s)))

calculate_peak(s) == MaxAbs(s)

\* 20 * log10(rms + 1e-10) < silence_threshold_db, for the -40 dB of the
\* configurations drawn: rms / FullScale < 10^(-40/20) = 0.01
detect_silence(s) == 100 * calculate_rms(s) < FullScale

\* rms > 0.001 and rms < 0.001 of the source, on a level in int16 units
AboveNoiseFloor(rms) == 1000 * rms > FullScale
BelowNoiseFloor(rms) == 1000 * rms < FullScale

\* max(0.1, min(g, 4.0))
ClampGain(g) == Max(GainOne \div 10, Min(g, 4 * GainOne))

\* apply_normalization, lines 1009-1017: the new target_gain_
NewTargetGain(s, target) ==
    LET current_rms == calculate_rms(s)
    IN  IF AboveNoiseFloor(current_rms)
        THEN ClampGain((TargetRms * GainOne) \div current_rms)
        ELSE target

\* a faulty smoothing that goes twice the way to the target: the gain
\* property must tell it from smooth_gain_transition
smooth_gain_transition_twice(current, target) ==
    current + 2 * (target - current)

\* current_gain_ += (target_gain_ - current_gain_) * gain_smoothing_ (0.001)
smooth_gain_transition(current, target) ==
    current + TruncDiv(target - current, 1000)

\* static_cast<int16_t>(max(-32768.0, min(32767.0, sample * current_gain_)))
\* sample * gain / GainOne, truncated toward zero; the product is taken in two
\* parts so that a full-scale sample stays within the integers at hand
ScaleByGain(sample, gain) ==
    LET whole == Abs(sample) * (gain \div 1000)
        part == (Abs(sample) * (gain % 1000)) \div 1000
        scaled == (whole + part) \div (GainOne \div 1000)
    IN  IF (sample < 0) = (gain < 0) THEN scaled ELSE -scaled

ApplyGain(sample, gain) ==
    Max(-FullScale, Min(FullScale - 1, ScaleByGain(sample, gain)))

\* update_quality_metrics on a non-empty block: the metrics and the history after it
MetricsAfterBlock(m, s) ==
    [m EXCEPT !.volume_rms = calculate_rms(s),
              !.volume_peak = calculate_peak(s),
              !.is_silence = detect_silence(s)]

\* a faulty window that, once full, drops the value just pushed instead of the
\* oldest: the window property must tell it from HistoryAfterBlock
HistoryDropsNewest(h, s) ==
    LET pushed == Append(h, calculate_rms(s))
    IN  IF Len(pushed) > rms_history_size_ THEN SubSeq(pushed, 1, rms_history_size_)
        ELSE pushed

HistoryAfterBlock(h, s) ==
    LET pushed == Append(h, calculate_rms(s))
    IN  IF Len(pushed) > rms_history_size_ THEN Tail(pushed) ELSE pushed

\* vector::resize(n): keeps a prefix, pads with value-initialised samples
Resize(s, n) ==
    [i \in 1..n |-> IF i <= Len(s) THEN s[i] ELSE 0]

\* sample values the input delivers
SampleValues == {0, 4096}

\* the max_samples the caller asks get_samples for
SampleRequests == {1}

\* the blocks a read of at most n samples can deliver
Blocks(n) == UNION {[1..k -> SampleValues] : k \in 1..n}

(***************************************************************************)
(* The state after construction (EnhancedStreamProcessor's constructor and *)
(* the member initialisers of enhanced_stream.h).                          *)
(***************************************************************************)
\* no call returned / no access to the metrics group was made in the step
NoCall == [op |-> "none", ret |-> 0, reach |-> {}, tried |-> <<>>]
NoAccess == [by |-> "none", locked |-> TRUE]

StreamInit ==
    /\ config_ \in Configs
    /\ vlc_input_ = "null"
    /\ running_ = FALSE
    /\ connected_ = FALSE
    /\ current_fallback_index_ = -1
    /\ monitor_thread_ = "none"
    /\ metrics_mutex_ = "free"
    /\ metrics_ = [volume_rms |-> 0, volume_peak |-> 0, is_silence |-> FALSE,
                   reconnect_count |-> 0, underrun_count |-> 0]
    /\ since_last_audio = 0
    /\ since_last_sound = 0
    /\ rms_history_ = <<>>
    /\ current_gain_ = GainOne
    /\ target_gain_ = GainOne
    /\ ctrl_pc = "idle"
    /\ mon_pc = "none"
    /\ next_index = 0
    /\ cycle = [start_index |-> -1, attempts |-> <<>>]
    /\ audio_pc = "idle"
    /\ samples = <<>>
    /\ last_call = NoCall
    /\ blocks_read = 0
    /\ after_stop = [attempts |-> 0, waits |-> 0]
    /\ metrics_access = NoAccess

\* ThaiDLSProcessor(max_length, scrolling); no text has been processed yet
ThaiDLSProcessor(max_length, scrolling) ==
    /\ max_segment_length_ = max_length
    /\ scrolling_enabled_ = scrolling
    /\ current_segment_ = <<>>
    /\ dls_text = <<>>
    /\ dls_out = <<>>
    /\ dls_call = "none"

\* no static function has been called yet
NoUtilCall == [op |-> "none"]

\* the threads that call process_raw_metadata
MetaThreads == 1..MaxMetaThreads

NoMetaCall == [op |-> "none"]
\* what a call keeps on its stack: the flags of its record, the counter value
\* it read, and how many Thai codepoints its conversions replaced by '?'
NoMetaReg ==
    [thai |-> FALSE, threw |-> FALSE, loaded |-> 0, replaced |-> 0,
     confidence |-> [num |-> 0, den |-> 1]]

\* ProcessingStats as its member initialisers leave it; the average is a
\* quotient, kept as numerator and denominator in lowest terms
ProcessingStats ==
    [total_metadata_processed |-> 0, thai_content_detected |-> 0,
     conversion_errors |-> 0, average_thai_confidence |-> [num |-> 0, den |-> 1]]

\* the ledger of the calls since construction or the last reset: calls begun
\* and completed, those flagged Thai, and the sum of their confidences
NoMetaDone ==
    [begun |-> 0, calls |-> 0, thai |-> 0, confidence_sum |-> [num |-> 0, den |-> 1]]

\* ThaiMetadataProcessor(), in a build where plain char is signed or not: the
\* counters are zero and no call is in progress
ThaiMetadataProcessor(char_signed) ==
    /\ plain_char_signed = char_signed
    /\ stats_ = ProcessingStats
    /\ meta_pc = [t \in MetaThreads |-> "idle"]
    /\ meta_reg = [t \in MetaThreads |-> NoMetaReg]
    /\ meta_call = NoMetaCall
    /\ meta_done = NoMetaDone

TextInit == util_call = NoUtilCall /\ ThaiMetadataProcessor(TRUE)

Init == StreamInit /\ ThaiDLSProcessor(MaxSegLen, TRUE) /\ TextInit
(***************************************************************************)
(* Observations of a step.                                                 *)
(***************************************************************************)
Returned(op, ret) ==
    last_call' = [op |-> op, ret |-> ret, reach |-> {}, tried |-> <<>>]
NoReturn == last_call' = NoCall

\* the step reads or writes the metrics group; thread holds the mutex or not
Access(thread, locked) == metrics_access' = [by |-> thread, locked |-> locked]
NoMetricsAccess == metrics_access' = NoAccess

\* what the monitor has done since stop_stream cleared running_ (while the
\* caller is inside join)
NoteAfterStop(kind) ==
    IF ctrl_pc = "joining"
    THEN after_stop' = [after_stop EXCEPT ![kind] = @ + 1]
    ELSE UNCHANGED after_stop

NoCycle == [start_index |-> -1, attempts |-> <<>>]

(***************************************************************************)
(* The control thread: initialize, start_stream, stop_stream.              *)
(***************************************************************************)
\* attempt_connection's result, reach being the URLs on which
\* test_stream_connectivity(url) and vlc_input_->open(url) both succeed at the
\* time of the attempt (an exception counts as failure)
attempt_connection(url, reach) == vlc_input_ # "null" /\ url \in reach

\* attempt_connection's effect when it succeeds (under lock_guard(metrics_mutex_)):
\* metrics_.reconnect_count++, metrics_.last_audio = now
ConnectedUpdate(thread) ==
    /\ metrics_mutex_ = "free"
    /\ metrics_.reconnect_count < MaxReconnectCount
    /\ metrics_' = [metrics_ EXCEPT !.reconnect_count = @ + 1]
    /\ since_last_audio' = 0
    /\ since_last_sound' = 0
    /\ Access(thread, TRUE)

\* initialize(): "ok" and "refused" are VLCInput::initialize returning true and
\* false on the new input, "throws" is an exception before vlc_input_ is assigned
Initialize(outcome) ==
    /\ ctrl_pc = "idle"
    /\ vlc_input_' = IF outcome = "throws" THEN vlc_input_ ELSE "input"
    /\ NoReturn
    /\ NoMetricsAccess
    /\ UNCHANGED <<config_, running_, connected_, current_fallback_index_,
                   monitor_thread_, metrics_mutex_, metrics_, since_last_audio, since_last_sound,
                   rms_history_, current_gain_, target_gain_, ctrl_pc, mon_pc,
                   next_index, cycle, audio_pc, samples, blocks_read,
                   after_stop, textVars>>

\* a faulty order, fallbacks before the primary: the start-order property
\* must tell it from StartOrder
StartOrderFallbacksFirst == config_.fallback_urls \o <<config_.primary_url>>

\* the URLs start_stream tries, in the order it tries them
StartOrder == <<config_.primary_url>> \o config_.fallback_urls

\* start_stream's two loops: the position in StartOrder of the first attempt
\* that succeeds, from position i on; 0 when every attempt fails
RECURSIVE TryFrom(_, _)
TryFrom(i, reach) ==
    IF i > Len(StartOrder) THEN 0
    ELSE IF attempt_connection(StartOrder[i], reach) THEN i
    ELSE TryFrom(i + 1, reach)

\* start_stream returns ret, having made the attempts tried on the network reach
StartReturned(ret, reach, tried) ==
    last_call' = [op |-> "start_stream", ret |-> ret, reach |-> reach, tried |-> tried]

StartStream(reach) ==
    /\ ctrl_pc = "idle"
    /\ IF running_
       THEN /\ StartReturned(TRUE, reach, <<>>)
            /\ NoMetricsAccess
            /\ UNCHANGED <<running_, connected_, current_fallback_index_,
                           monitor_thread_, mon_pc, metrics_, since_last_audio, since_last_sound>>
       ELSE LET k == TryFrom(1, reach)
            IN  IF k # 0
                THEN /\ ConnectedUpdate("ctrl")
                     /\ running_' = TRUE
                     /\ connected_' = TRUE
                     /\ current_fallback_index_' = k - 2
                     /\ monitor_thread_' = "joinable"
                     /\ mon_pc' = "loop"
                     /\ StartReturned(TRUE, reach, SubSeq(StartOrder, 1, k))
                ELSE /\ running_' = FALSE
                     /\ current_fallback_index_' = -1
                     /\ StartReturned(FALSE, reach, StartOrder)
                     /\ NoMetricsAccess
                     /\ UNCHANGED <<connected_, monitor_thread_, mon_pc, metrics_,
                                    since_last_audio, since_last_sound>>
    /\ UNCHANGED <<config_, vlc_input_, metrics_mutex_, rms_history_, current_gain_,
                   target_gain_, ctrl_pc, next_index, cycle, audio_pc, samples,
                   blocks_read, after_stop, textVars>>

\* stop_stream() up to the join: running_ = false, connected_ = false, and either
\* notify_all + join (the caller blocks) or, with no thread to join, the rest
StopStream ==
    /\ ctrl_pc = "idle"
    /\ running_' = FALSE
    /\ connected_' = FALSE
    /\ IF monitor_thread_ = "joinable"
       THEN /\ ctrl_pc' = "joining"
            /\ after_stop' = [attempts |-> 0,
                              waits |-> IF mon_pc \in {"waiting", "sleep"} THEN 1 ELSE 0]
            /\ NoReturn
            /\ UNCHANGED vlc_input_
       ELSE /\ vlc_input_' = "null"
            /\ Returned("stop_stream", 0)
            /\ UNCHANGED <<ctrl_pc, after_stop>>
    /\ NoMetricsAccess
    /\ UNCHANGED <<config_, current_fallback_index_, monitor_thread_, metrics_mutex_,
                   metrics_, since_last_audio, since_last_sound, rms_history_, current_gain_,
                   target_gain_, mon_pc, next_index, cycle, audio_pc, samples,
                   blocks_read, textVars>>

\* stop_stream() from the return of join on: vlc_input_.reset()
StopJoin ==
    /\ ctrl_pc = "joining"
    /\ mon_pc = "exited"
    /\ monitor_thread_' = "none"
    /\ mon_pc' = "none"
    /\ vlc_input_' = "null"
    /\ ctrl_pc' = "idle"
    /\ after_stop' = [attempts |-> 0, waits |-> 0]
    /\ Returned("stop_stream", 0)
    /\ NoMetricsAccess
    /\ UNCHANGED <<config_, running_, connected_, current_fallback_index_,
                   metrics_mutex_, metrics_, since_last_audio, since_last_sound, rms_history_,
                   current_gain_, target_gain_, next_index, cycle, audio_pc,
                   samples, blocks_read, textVars>>

(***************************************************************************)
(* The monitor thread: monitor_stream(), one action per step between two   *)
(* points where another thread can interleave.                             *)
(*   loop -> check -> health -> sleep -> loop                              *)
(*           check -> [open_primary] -> [open_fallback] -> waiting -> loop *)
(*                         |                  |                            *)
(*                         +-> health         +-> health                   *)
(***************************************************************************)
MonFrame ==
    /\ NoReturn
    /\ UNCHANGED textVars
    /\ UNCHANGED <<config_, vlc_input_, running_, monitor_thread_, rms_history_,
                   current_gain_, target_gain_, ctrl_pc, audio_pc, samples,
                   blocks_read>>

\* while (running_)
MonLoop ==
    /\ mon_pc = "loop"
    /\ mon_pc' = IF running_ THEN "check" ELSE "exited"
    /\ MonFrame
    /\ NoMetricsAccess
    /\ UNCHANGED <<connected_, current_fallback_index_, metrics_mutex_, metrics_,
                   since_last_audio, since_last_sound, next_index, cycle, after_stop>>

\* a faulty advance that runs off the end of the fallback list: the manual
\* cycling property must tell it from NextFallback
NextFallbackNoWrap(i) == i + 1

\* a faulty choice, the current fallback again instead of the next one: the
\* failover-order property must tell it from NextFallback
NextFallbackSame(i) == IF i = -1 THEN 0 ELSE i

\* the fallback the monitor tries from index i: (i + 1) % fallback_urls.size()
NextFallback(i) == (i + 1) % NumFallbacks

\* if (!reconnected): unique_lock(metrics_mutex_), then wait_for releases it and
\* the thread waits
BeginWait ==
    /\ metrics_mutex_ = "free"
    /\ mon_pc' = "waiting"
    /\ NoteAfterStop("waits")
    /\ UNCHANGED next_index

\* if (!reconnected && !config_.fallback_urls.empty()): next_index is computed and
\* the attempt on fallback_urls[next_index] begins; with no fallback the cycle
\* is over
BeginFallback(tried) ==
    IF NumFallbacks > 0
    THEN /\ next_index' = NextFallback(current_fallback_index_)
         /\ mon_pc' = "open_fallback"
         /\ cycle' = [start_index |-> current_fallback_index_,
                      attempts |-> Append(tried, FallbackAt(next_index'))]
         /\ NoteAfterStop("attempts")
    ELSE /\ cycle' = [start_index |-> current_fallback_index_, attempts |-> tried]
         /\ BeginWait

\* if (current_fallback_index_ != -1) attempt_connection(config_.primary_url): the
\* attempt begins; on the primary already, the fallbacks are next
BeginReconnect ==
    IF current_fallback_index_ # -1
    THEN /\ mon_pc' = "open_primary"
         /\ cycle' = [start_index |-> current_fallback_index_,
                      attempts |-> <<config_.primary_url>>]
         /\ NoteAfterStop("attempts")
         /\ UNCHANGED next_index
    ELSE BeginFallback(<<>>)

\* if (!connected_) { bool reconnected = false; ...
MonCheck ==
    /\ mon_pc = "check"
    /\ IF connected_
       THEN /\ mon_pc' = "health"
            /\ UNCHANGED <<next_index, cycle, after_stop>>
       ELSE BeginReconnect
    /\ MonFrame
    /\ NoMetricsAccess
    /\ UNCHANGED <<connected_, current_fallback_index_, metrics_mutex_, metrics_,
                   since_last_audio, since_last_sound>>

\* the attempt on the primary URL ends
MonOpenPrimary(reach) ==
    /\ mon_pc = "open_primary"
    /\ IF attempt_connection(config_.primary_url, reach)
       THEN /\ ConnectedUpdate("monitor")
            /\ current_fallback_index_' = -1
            /\ connected_' = TRUE
            /\ mon_pc' = "health"
            /\ cycle' = NoCycle
            /\ UNCHANGED <<next_index, after_stop>>
       ELSE /\ BeginFallback(cycle.attempts)
            /\ NoMetricsAccess
            /\ UNCHANGED <<connected_, current_fallback_index_, metrics_,
                           since_last_audio, since_last_sound>>
    /\ MonFrame
    /\ UNCHANGED metrics_mutex_

\* the attempt on the fallback URL ends
MonOpenFallback(reach) ==
    /\ mon_pc = "open_fallback"
    /\ IF attempt_connection(FallbackAt(next_index), reach)
       THEN /\ ConnectedUpdate("monitor")
            /\ current_fallback_index_' = next_index
            /\ connected_' = TRUE
            /\ mon_pc' = "health"
            /\ cycle' = NoCycle
            /\ UNCHANGED <<next_index, after_stop>>
       ELSE /\ BeginWait
            /\ NoMetricsAccess
            /\ UNCHANGED <<connected_, current_fallback_index_, metrics_,
                           since_last_audio, since_last_sound, cycle>>
    /\ MonFrame
    /\ UNCHANGED metrics_mutex_

\* wait_for returns (reconnect_delay_ms elapsed, notify_all, or spuriously): the
\* mutex is taken again and released at the end of the block; continue
MonWake ==
    /\ mon_pc \in {"waiting", "woken"}
    /\ metrics_mutex_ = "free"
    /\ mon_pc' = "loop"
    /\ cycle' = NoCycle
    /\ MonFrame
    /\ NoMetricsAccess
    /\ UNCHANGED <<connected_, current_fallback_index_, metrics_mutex_, metrics_,
                   since_last_audio, since_last_sound, next_index, after_stop>>

\* The values an access to metrics_.last_audio made without the mutex can read
\* as now - last_audio: the stored one, or the one get_samples is storing
RacyLastAudio ==
    {since_last_audio} \cup (IF audio_pc = "stamp" THEN {0} ELSE {})

\* Check stream health: silence_duration > config_.silence_timeout_s; the read
\* of metrics_.last_audio takes no lock
MonHealth ==
    /\ mon_pc = "health"
    /\ \E silence_duration \in RacyLastAudio :
          IF silence_duration > config_.silence_timeout_s
          THEN /\ connected_' = FALSE
               /\ mon_pc' = "loop"
               /\ UNCHANGED after_stop
          ELSE /\ mon_pc' = "sleep"
               /\ NoteAfterStop("waits")
               /\ UNCHANGED connected_
    /\ Access("monitor", metrics_mutex_ = "monitor")
    /\ MonFrame
    /\ UNCHANGED <<current_fallback_index_, metrics_mutex_, metrics_,
                   since_last_audio, since_last_sound, next_index, cycle>>

\* this_thread::sleep_for(milliseconds(1000)) ends
MonSleep ==
    /\ mon_pc = "sleep"
    /\ mon_pc' = "loop"
    /\ MonFrame
    /\ NoMetricsAccess
    /\ UNCHANGED <<connected_, current_fallback_index_, metrics_mutex_, metrics_,
                   since_last_audio, since_last_sound, next_index, cycle, after_stop>>

(***************************************************************************)
(* The audio thread: get_samples(samples, max_samples).                    *)
(*   idle -> read -> metrics -> stamp_lock -> stamp -> idle                *)
(***************************************************************************)
AudioFrame == UNCHANGED <<config_, vlc_input_, running_, current_fallback_index_,
                          monitor_thread_, ctrl_pc, mon_pc, next_index, cycle,
                          after_stop, textVars>>

\* a faulty entry test that forgets connected_: the disconnected-read property
\* must tell it from InputReady
InputExists == vlc_input_ # "null"

\* the negation of get_samples's entry test (!vlc_input_ || !connected_)
InputReady == vlc_input_ # "null" /\ connected_

\* get_samples returns ret after a read on the input
ReturnedRead(ret) ==
    last_call' = [op |-> "get_samples", ret |-> ret, reach |-> {}, tried |-> <<"read">>]

\* if (!vlc_input_ || !connected_) return 0; samples.resize(max_samples); the
\* read begins
GetSamplesEnter(max_samples) ==
    /\ audio_pc = "idle"
    /\ IF ~InputReady
       THEN /\ Returned("get_samples", 0)
            /\ UNCHANGED <<audio_pc, samples>>
       ELSE /\ samples' = Resize(samples, max_samples)
            /\ audio_pc' = "read"
            /\ NoReturn
    /\ NoMetricsAccess
    /\ AudioFrame
    /\ UNCHANGED <<connected_, metrics_mutex_, metrics_, since_last_audio, since_last_sound,
                   rms_history_, current_gain_, target_gain_, blocks_read>>

\* vlc_input_->read returns a negative value: connected_ = false
GetSamplesReadError ==
    /\ audio_pc = "read"
    /\ connected_' = FALSE
    /\ audio_pc' = "idle"
    /\ ReturnedRead(-1)
    /\ NoMetricsAccess
    /\ AudioFrame
    /\ UNCHANGED <<metrics_mutex_, metrics_, since_last_audio, since_last_sound, rms_history_,
                   current_gain_, target_gain_, samples, blocks_read>>

\* vlc_input_->read returns 0: neither branch is taken
GetSamplesReadNone ==
    /\ audio_pc = "read"
    /\ audio_pc' = "idle"
    /\ ReturnedRead(0)
    /\ NoMetricsAccess
    /\ AudioFrame
    /\ UNCHANGED <<connected_, metrics_mutex_, metrics_, since_last_audio, since_last_sound,
                   rms_history_, current_gain_, target_gain_, samples, blocks_read>>

\* vlc_input_->read returns a block of at most max_samples (the size samples
\* was given): samples.resize(samples_read), and update_quality_metrics takes
\* the mutex
GetSamplesReadBlock(block) ==
    /\ audio_pc = "read"
    /\ blocks_read < MaxBlocks
    /\ metrics_mutex_ = "free"
    /\ samples' = block
    /\ metrics_mutex_' = "audio"
    /\ audio_pc' = "metrics"
    /\ blocks_read' = blocks_read + 1
    /\ NoReturn
    /\ NoMetricsAccess
    /\ AudioFrame
    /\ UNCHANGED <<connected_, metrics_, since_last_audio, since_last_sound, rms_history_,
                   current_gain_, target_gain_>>

\* apply_normalization on a non-empty block: <<target_gain_, current_gain_, samples>>
apply_normalization(s, current, target) ==
    LET t == NewTargetGain(s, target)
        c == smooth_gain_transition(current, t)
    IN  <<t, c, [i \in 1..Len(s) |-> ApplyGain(s[i], c)]>>

\* update_quality_metrics writes the metrics under the mutex and releases it;
\* then apply_normalization, which touches only the caller's block and the gain
GetSamplesMetrics ==
    /\ audio_pc = "metrics"
    /\ metrics_' = MetricsAfterBlock(metrics_, samples)
    /\ rms_history_' = HistoryAfterBlock(rms_history_, samples)
    /\ Access("audio", metrics_mutex_ = "audio")
    /\ metrics_mutex_' = "free"
    /\ IF config_.enable_normalization
       THEN LET n == apply_normalization(samples, current_gain_, target_gain_)
            IN  /\ target_gain_' = n[1]
                /\ current_gain_' = n[2]
                /\ samples' = n[3]
       ELSE UNCHANGED <<target_gain_, current_gain_, samples>>
    /\ audio_pc' = "stamp_lock"
    /\ NoReturn
    /\ AudioFrame
    /\ UNCHANGED <<connected_, since_last_audio, since_last_sound, blocks_read>>

\* lock_guard<mutex> lock(metrics_mutex_)
GetSamplesStampLock ==
    /\ audio_pc = "stamp_lock"
    /\ metrics_mutex_ = "free"
    /\ metrics_mutex_' = "audio"
    /\ audio_pc' = "stamp"
    /\ NoReturn
    /\ NoMetricsAccess
    /\ AudioFrame
    /\ UNCHANGED <<connected_, metrics_, since_last_audio, since_last_sound, rms_history_,
                   current_gain_, target_gain_, samples, blocks_read>>

\* metrics_.last_audio = steady_clock::now(); return samples_read
GetSamplesStamp ==
    /\ audio_pc = "stamp"
    /\ since_last_audio' = 0
    /\ since_last_sound' = IF metrics_.is_silence THEN since_last_sound ELSE 0
    /\ Access("audio", metrics_mutex_ = "audio")
    /\ metrics_mutex_' = "free"
    /\ audio_pc' = "idle"
    /\ ReturnedRead(Len(samples))
    /\ AudioFrame
    /\ UNCHANGED <<connected_, metrics_, rms_history_, current_gain_, target_gain_,
                   samples, blocks_read>>

(***************************************************************************)
(* The accessors, called from any other thread.                            *)
(***************************************************************************)
ApiFrame == UNCHANGED <<config_, vlc_input_, running_, connected_,
                        current_fallback_index_, monitor_thread_, metrics_mutex_,
                        metrics_, since_last_audio, since_last_sound, rms_history_, current_gain_,
                        target_gain_, ctrl_pc, mon_pc, next_index, cycle, audio_pc,
                        samples, blocks_read, after_stop, textVars>>

\* get_quality_metrics(): a copy of metrics_ under lock_guard(metrics_mutex_)
GetQualityMetrics ==
    /\ metrics_mutex_ = "free"
    /\ Access("api", TRUE)
    /\ Returned("get_quality_metrics", metrics_)
    /\ ApiFrame

\* The values an access to metrics_.volume_rms made without the mutex can read:
\* the stored one, or the one update_quality_metrics is storing
RacyVolumeRms ==
    {metrics_.volume_rms} \cup
    (IF audio_pc = "metrics" THEN {calculate_rms(samples)} ELSE {})

\* a variant that compares the silence with the whole timeout instead of half
\* of it: the health property must tell it from HealthIssues
HealthIssuesWholeTimeout(connected, silence_duration, underruns, rms) ==
    (IF ~connected THEN {"Stream disconnected"} ELSE {}) \cup
    (IF silence_duration > config_.silence_timeout_s
     THEN {"Prolonged silence detected"} ELSE {}) \cup
    (IF underruns > 10 THEN {"Frequent buffer underruns"} ELSE {}) \cup
    (IF BelowNoiseFloor(rms) THEN {"Very low audio level"} ELSE {})

\* get_health_issues() on the values it reads
HealthIssues(connected, silence_duration, underruns, rms) ==
    (IF ~connected THEN {"Stream disconnected"} ELSE {}) \cup
    (IF silence_duration > config_.silence_timeout_s \div 2
     THEN {"Prolonged silence detected"} ELSE {}) \cup
    (IF underruns > 10 THEN {"Frequent buffer underruns"} ELSE {}) \cup
    (IF BelowNoiseFloor(rms) THEN {"Very low audio level"} ELSE {})

\* duration_cast<seconds>(now - metrics_.last_audio).count() on a duration given
\* in half seconds
WholeSeconds(halves) == halves \div 2

\* the durations now - last_audio, in half seconds, whose whole seconds are since
ElapsedHalves(since) == {2 * since, 2 * since + 1}

\* what a health accessor read: connected_, now - last_audio (in half seconds),
\* underrun_count and volume_rms, the metrics without the mutex
HealthReads ==
    {[connected |-> connected_, elapsed |-> elapsed,
      underruns |-> metrics_.underrun_count, rms |-> rms] :
        elapsed \in UNION {ElapsedHalves(since) : since \in RacyLastAudio},
        rms \in RacyVolumeRms}

\* the issues get_health_issues builds from what it read
IssuesOf(saw) ==
    HealthIssues(saw.connected, WholeSeconds(saw.elapsed), saw.underruns, saw.rms)

\* a health accessor returns ret, having read saw and built issues from it
HealthReturned(op, ret, issues, saw) ==
    last_call' = [op |-> op, ret |-> ret, reach |-> {}, tried |-> <<>>,
                  saw |-> saw, issues |-> issues]

\* get_health_issues(): reads connected_ and metrics_ without the mutex
GetHealthIssues ==
    /\ \E saw \in HealthReads :
          HealthReturned("get_health_issues", IssuesOf(saw), IssuesOf(saw), saw)
    /\ Access("api", metrics_mutex_ = "api")
    /\ ApiFrame

\* is_healthy(): auto issues = get_health_issues(); return issues.empty()
IsHealthy ==
    /\ \E saw \in HealthReads :
          LET issues == IssuesOf(saw)
          IN  HealthReturned("is_healthy", issues = {}, issues, saw)
    /\ Access("api", metrics_mutex_ = "api")
    /\ ApiFrame

(***************************************************************************)
(* The environment.  The network is the set reach each connection attempt  *)
(* is given: any set of the configured URLs, attempt by attempt.           *)
(***************************************************************************)
Networks == SUBSET ConfiguredURLs

\* a second of the steady clock passes; every duration above the timeout
\* compares alike, so the count stops one above it
Tick ==
    /\ since_last_audio <= config_.silence_timeout_s
       \/ since_last_sound <= config_.silence_timeout_s
    /\ since_last_audio' = Min(since_last_audio + 1, config_.silence_timeout_s + 1)
    /\ since_last_sound' = Min(since_last_sound + 1, config_.silence_timeout_s + 1)
    /\ NoReturn
    /\ NoMetricsAccess
    /\ UNCHANGED <<config_, vlc_input_, running_, connected_,
                   current_fallback_index_, monitor_thread_, metrics_mutex_,
                   metrics_, rms_history_, current_gain_, target_gain_, ctrl_pc,
                   mon_pc, next_index, cycle, audio_pc, samples, blocks_read,
                   after_stop, textVars>>

StreamNext ==
    \/ \E outcome \in {"ok", "refused", "throws"} : Initialize(outcome)
    \/ \E reach \in Networks : StartStream(reach)
    \/ StopStream
    \/ StopJoin
    \/ MonLoop
    \/ MonCheck
    \/ \E reach \in Networks : MonOpenPrimary(reach)
    \/ \E reach \in Networks : MonOpenFallback(reach)
    \/ MonWake
    \/ MonHealth
    \/ MonSleep
    \/ \E max_samples \in SampleRequests : GetSamplesEnter(max_samples)
    \/ GetSamplesReadError
    \/ GetSamplesReadNone
    \/ \E block \in Blocks(Len(samples)) : GetSamplesReadBlock(block)
    \/ GetSamplesMetrics
    \/ GetSamplesStampLock
    \/ GetSamplesStamp
    \/ Tick

Next == StreamNext

Spec == Init /\ [][Next]_vars

\* the stream processor with the accessors called from a further thread
ApiNext ==
    \/ StreamNext
    \/ GetQualityMetrics
    \/ GetHealthIssues
    \/ IsHealthy

SpecApi == Init /\ [][ApiNext]_vars

(***************************************************************************)
(* Configuration management and manual cycling.  update_config and         *)
(* cycle_fallback are declared in enhanced_stream.h; their bodies follow   *)
(* the specification's description of them.                                *)
(***************************************************************************)
ConfigFrame == UNCHANGED <<vlc_input_, running_, connected_, monitor_thread_,
                           metrics_mutex_, metrics_, since_last_audio,
                           since_last_sound, rms_history_, current_gain_,
                           target_gain_, ctrl_pc, mon_pc, next_index, cycle,
                           audio_pc, samples, blocks_read, after_stop, textVars>>

\* a faulty validation that accepts every configuration: the rejection
\* property must tell it from IsStructurallyValid
IsStructurallyValidAlways(config) == TRUE

\* the structural validity update_config demands: a primary URL is given
IsStructurallyValid(config) == config.primary_url # ""

\* the configurations update_config is called with: the valid ones and each of
\* them without its primary URL
ConfigUpdates == Configs \cup {[c EXCEPT !.primary_url = ""] : c \in Configs}

\* update_config returns: ret is 0, or -1 for a ConfigurationError
UpdateReturned(ret, config) ==
    last_call' = [op |-> "update_config", ret |-> ret, reach |-> {}, tried |-> <<>>,
                  arg |-> config]

\* get_config()
get_config == config_

\* update_config(config): a structurally invalid configuration is rejected
\* synchronously; a valid one replaces the configuration in place, under the
\* lock, and an active connection is not dropped.  The replacement is taken
\* between the monitor's attempts.
UpdateConfig(config) ==
    /\ metrics_mutex_ = "free"
    /\ mon_pc \notin {"open_primary", "open_fallback"}
    /\ config # config_
    /\ IF IsStructurallyValid(config)
       THEN /\ config_' = config
            /\ UpdateReturned(0, config)
       ELSE /\ UNCHANGED config_
            /\ UpdateReturned(-1, config)
    /\ NoMetricsAccess
    /\ UNCHANGED current_fallback_index_
    /\ ConfigFrame

\* cycle_fallback(): manual, unconditional advance of the current index, round
\* robin through the fallback list as the monitor advances it
CycleFallback ==
    /\ NumFallbacks > 0
    /\ current_fallback_index_' = NextFallback(current_fallback_index_)
    /\ last_call' = [op |-> "cycle_fallback", ret |-> 0, reach |-> {}, tried |-> <<>>,
                     from |-> current_fallback_index_]
    /\ NoMetricsAccess
    /\ UNCHANGED config_
    /\ ConfigFrame

ConfigNext ==
    \/ StreamNext
    \/ \E config \in ConfigUpdates : UpdateConfig(config)
    \/ CycleFallback

SpecConfig == Init /\ [][ConfigNext]_vars

\* the management calls alone, on a processor stopped or started
ManagementNext ==
    \/ \E outcome \in {"ok", "refused", "throws"} : Initialize(outcome)
    \/ \E reach \in Networks : StartStream(reach)
    \/ \E config \in ConfigUpdates : UpdateConfig(config)
    \/ CycleFallback

SpecManagement == Init /\ [][ManagementNext]_vars

\* force_reconnect(): marks the stream disconnected and notifies reconnect_cv_;
\* a monitor inside wait_for is woken, a monitor anywhere else (inside
\* this_thread::sleep_for among them) is not reached by the notification
ForceReconnect ==
    /\ ctrl_pc = "idle"
    /\ connected_' = FALSE
    /\ mon_pc' = IF mon_pc = "waiting" THEN "woken" ELSE mon_pc
    /\ Returned("force_reconnect", TRUE)
    /\ NoMetricsAccess
    /\ UNCHANGED <<config_, vlc_input_, running_, current_fallback_index_,
                   monitor_thread_, metrics_mutex_, metrics_, since_last_audio,
                   since_last_sound, rms_history_, current_gain_, target_gain_,
                   ctrl_pc, next_index, cycle, audio_pc, samples, blocks_read,
                   after_stop, textVars>>

\* the stream with an operator forcing reconnections
ReconnectNext ==
    \/ StreamNext
    \/ ForceReconnect

SpecReconnect == Init /\ [][ReconnectNext]_vars

\* the sample values of the blocks given to the normaliser: silence, a quiet
\* signal (target gain above 4.0), a signal near the target level, full scale
\* (target gain below 0.1)
GainSamples == {0, 100, 4096, 32767}

\* the read of one of the MaxGainBlocks one-sample blocks of such a signal
GetSamplesReadGainBlock(block) ==
    /\ audio_pc = "read"
    /\ blocks_read < MaxGainBlocks
    /\ metrics_mutex_ = "free"
    /\ samples' = block
    /\ metrics_mutex_' = "audio"
    /\ audio_pc' = "metrics"
    /\ blocks_read' = blocks_read + 1
    /\ NoReturn
    /\ NoMetricsAccess
    /\ AudioFrame
    /\ UNCHANGED <<connected_, metrics_, since_last_audio, since_last_sound, rms_history_,
                   current_gain_, target_gain_>>

\* a started processor whose input is read block after block; the monitor
\* thread sleeps meanwhile
GainNext ==
    \/ \E outcome \in {"ok", "refused", "throws"} : Initialize(outcome)
    \/ \E reach \in Networks : StartStream(reach)
    \/ \E max_samples \in SampleRequests : GetSamplesEnter(max_samples)
    \/ \E sample \in GainSamples : GetSamplesReadGainBlock(<<sample>>)
    \/ GetSamplesMetrics
    \/ GetSamplesStampLock
    \/ GetSamplesStamp

SpecGain == Init /\ [][GainNext]_vars

\* the level of the first block of a rising signal
RampStarts == {1, 2}

\* the read of one of the MaxHistoryBlocks one-sample blocks of a rising
\* signal: each block is one step louder than the one before, so that no two
\* blocks have the same RMS
GetSamplesReadRampBlock(block) ==
    /\ audio_pc = "read"
    /\ blocks_read < MaxHistoryBlocks
    /\ blocks_read > 0 => block = <<metrics_.volume_rms + 1>>
    /\ metrics_mutex_ = "free"
    /\ samples' = block
    /\ metrics_mutex_' = "audio"
    /\ audio_pc' = "metrics"
    /\ blocks_read' = blocks_read + 1
    /\ NoReturn
    /\ NoMetricsAccess
    /\ AudioFrame
    /\ UNCHANGED <<connected_, metrics_, since_last_audio, since_last_sound, rms_history_,
                   current_gain_, target_gain_>>

\* a started processor that reads a rising signal block after block; the
\* monitor thread sleeps meanwhile
HistoryNext ==
    \/ \E outcome \in {"ok", "refused", "throws"} : Initialize(outcome)
    \/ \E reach \in Networks : StartStream(reach)
    \/ \E max_samples \in SampleRequests : GetSamplesEnter(max_samples)
    \/ \E level \in RampStarts \cup {metrics_.volume_rms + 1} :
          GetSamplesReadRampBlock(<<level>>)
    \/ GetSamplesMetrics
    \/ GetSamplesStampLock
    \/ GetSamplesStamp

\* the processor on its primary URL alone
InitHistory == Init /\ config_.fallback_urls = <<>>

SpecHistory == InitHistory /\ [][HistoryNext]_vars

\* a network on which the last configured endpoint, and no other, is reachable
\* at every attempt the monitor makes
StableNetwork ==
    IF NumFallbacks = 0 THEN {config_.primary_url} ELSE {FallbackAt(NumFallbacks - 1)}

\* a step of the monitor thread on that network
MonitorStep ==
    \/ MonLoop
    \/ MonCheck
    \/ MonOpenPrimary(StableNetwork)
    \/ MonOpenFallback(StableNetwork)
    \/ MonWake
    \/ MonHealth
    \/ MonSleep

\* the running stream losing its connection (a failed read, a silence timeout)
\* and the monitor failing over on the stable network
FailoverNext ==
    \/ \E outcome \in {"ok", "refused", "throws"} : Initialize(outcome)
    \/ \E reach \in Networks : StartStream(reach)
    \/ MonLoop
    \/ MonCheck
    \/ MonOpenPrimary(StableNetwork)
    \/ MonOpenFallback(StableNetwork)
    \/ MonWake
    \/ MonHealth
    \/ MonSleep
    \/ \E max_samples \in SampleRequests : GetSamplesEnter(max_samples)
    \/ GetSamplesReadError
    \/ GetSamplesReadNone
    \/ Tick

\* the monitor thread is scheduled, its waits and sleeps end and its connection
\* attempts return
SpecFailover == Init /\ [][FailoverNext]_vars /\ WF_vars(MonitorStep)

\* the stream with a client polling is_healthy(), which itself calls
\* get_health_issues()
HealthNext ==
    \/ StreamNext
    \/ IsHealthy

SpecHealth == Init /\ [][HealthNext]_vars

(***************************************************************************)
(* ThaiDLSProcessor and the ThaiCharsetConverter functions it rests on.    *)
(* A UTF-8 text is the sequence of its codepoints (the texts drawn are     *)
(* valid UTF-8, on which utf8_to_codepoints and codepoints_to_utf8 are     *)
(* inverse); a DAB text and a DLS are sequences of bytes.                  *)
(***************************************************************************)
\* the codepoints texts are drawn from: 'A', KO KAI (0x0E01), MAI EK (0x0E48)
DLSAlphabet == {65, 3585, 3656}

\* A std::string is a sequence of units: a codepoint stands for its well-formed
\* UTF-8 encoding, StrayByte for a byte 0xFF, which no UTF-8 sequence contains.
StrayByte == 255

TextUnits == DLSAlphabet \cup {StrayByte}

Texts == UNION {[1..n -> TextUnits] : n \in 0..MaxTextLen}

\* ThaiUtils::is_valid_utf8_sequence: from_bytes throws on a malformed sequence
is_valid_utf8_sequence(input) == \A i \in 1..Len(input) : input[i] # StrayByte

\* ThaiCharsetConverter::is_valid_thai_utf8
is_valid_thai_utf8(text) == is_valid_utf8_sequence(text)

\* ThaiUtils::utf8_to_codepoints: the exception of from_bytes is caught and the
\* vector, still empty, is returned
utf8_to_codepoints(utf8_string) ==
    IF is_valid_utf8_sequence(utf8_string) THEN utf8_string ELSE <<>>

\* ThaiUtils::codepoints_to_utf8: every codepoint drawn here has an encoding
codepoints_to_utf8(codepoints) == codepoints

\* ThaiUtils::is_thai_vowel: 0x0E30..0x0E3A or 0x0E40..0x0E44
is_thai_vowel(cp) == (cp >= 3632 /\ cp <= 3642) \/ (cp >= 3648 /\ cp <= 3652)

\* ThaiUtils::is_thai_tone_mark: 0x0E48..0x0E4B
is_thai_tone_mark(cp) == cp >= 3656 /\ cp <= 3659

\* the test both calculate_thai_display_length and truncate_thai_text make: a
\* non-spacing vowel (0x0E31..0x0E3A), a tone mark or THANTHAKHAT (0x0E4C) adds
\* no width
adds_width(cp) ==
    /\ ~(is_thai_vowel(cp) /\ cp >= 3633 /\ cp <= 3642)
    /\ ~is_thai_tone_mark(cp)
    /\ cp # 3660

\* utf8_to_dab_map_ (create_utf8_to_dab_thai_map): the codepoints it maps
InDabMap(cp) ==
    \/ cp >= 3585 /\ cp <= 3599       \* 0x0E01..0x0E0F -> 0x81..0x8F
    \/ cp >= 3632 /\ cp <= 3642       \* 0x0E30..0x0E3A -> 0xB0..0xBA
    \/ cp >= 3656 /\ cp <= 3660       \* 0x0E48..0x0E4C -> 0xC8..0xCC
    \/ cp >= 3664 /\ cp <= 3673       \* 0x0E50..0x0E59 -> 0xD0..0xD9
    \/ cp >= 32 /\ cp <= 127          \* ASCII, unchanged

\* a faulty table that folds the Thai block onto 0x40..0x7F, where ASCII
\* already is: the round-trip property must tell it from DabByte
DabByteFolded(cp) ==
    IF ~InDabMap(cp) THEN 63
    ELSE IF cp <= 127 THEN cp
    ELSE ((cp - 3584) % 64) + 64

\* the byte utf8_to_dab_thai emits for a codepoint: the mapped byte, or '?'
DabByte(cp) ==
    IF ~InDabMap(cp) THEN 63
    ELSE IF cp <= 127 THEN cp
    ELSE cp - 3584 + 128

\* ThaiCharsetConverter::utf8_to_dab_thai throws
\* ThaiProcessingException(InvalidUTF8) on these inputs
utf8_to_dab_thai_throws(utf8_input) == ~is_valid_thai_utf8(utf8_input)

\* ThaiCharsetConverter::utf8_to_dab_thai when it returns: one byte per codepoint
utf8_to_dab_thai(utf8_input) ==
    LET codepoints == utf8_to_codepoints(utf8_input)
    IN  [i \in 1..Len(codepoints) |-> DabByte(codepoints[i])]

\* the loop of calculate_thai_display_length over the codepoints
RECURSIVE DisplayLengthLoop(_)
DisplayLengthLoop(codepoints) ==
    IF codepoints = <<>> THEN 0
    ELSE (IF adds_width(Head(codepoints)) THEN 1 ELSE 0)
         + DisplayLengthLoop(Tail(codepoints))

\* ThaiCharsetConverter::calculate_thai_display_length
calculate_thai_display_length(utf8_text) ==
    DisplayLengthLoop(utf8_to_codepoints(utf8_text))

\* ThaiDLSProcessor::calculate_display_width
calculate_display_width(thai_text) == calculate_thai_display_length(thai_text)

\* a faulty loop that stops one width-adding codepoint too late: the
\* truncation property must tell it from TruncateLoop
RECURSIVE TruncateLoopLate(_, _, _)
TruncateLoopLate(codepoints, current_length, max_length) ==
    IF codepoints = <<>> THEN <<>>
    ELSE LET cp == Head(codepoints)
         IN  IF adds_width(cp) /\ current_length > max_length
             THEN <<>>
             ELSE <<cp>> \o TruncateLoopLate(Tail(codepoints),
                                             current_length + (IF adds_width(cp) THEN 1 ELSE 0),
                                             max_length)

\* truncate_thai_text's loop over the remaining codepoints, current_length
\* being the width of the codepoints kept so far
RECURSIVE TruncateLoop(_, _, _)
TruncateLoop(codepoints, current_length, max_length) ==
    IF codepoints = <<>> THEN <<>>
    ELSE LET cp == Head(codepoints)
         IN  IF adds_width(cp) /\ current_length >= max_length
             THEN <<>>
             ELSE <<cp>> \o TruncateLoop(Tail(codepoints),
                                         current_length + (IF adds_width(cp) THEN 1 ELSE 0),
                                         max_length)

\* ThaiCharsetConverter::truncate_thai_text
truncate_thai_text(utf8_text, max_length) ==
    IF calculate_thai_display_length(utf8_text) <= max_length
    THEN utf8_text
    ELSE codepoints_to_utf8(TruncateLoop(utf8_to_codepoints(utf8_text), 0, max_length))

\* the codepoints single-character texts are drawn from: ASCII, controls and
\* Latin-1 below 0xFF, and the Thai block with its upper neighbour
CodepointsDrawn == (0..254) \cup (THAI_BLOCK_START..(THAI_BLOCK_END + 1))

\* dab_to_utf8_map_ (create_dab_thai_to_utf8_map): the table read from byte
\* to codepoint
dab_to_utf8_map_(byte) ==
    CHOOSE cp \in CodepointsDrawn : InDabMap(cp) /\ DabByte(cp) = byte

\* a call of the static utf8_to_dab_thai(utf8_input)
Utf8ToDabThai(utf8_input) ==
    /\ util_call' = [op |-> "utf8_to_dab_thai", utf8_text |-> utf8_input,
                     threw |-> utf8_to_dab_thai_throws(utf8_input),
                     result |-> IF utf8_to_dab_thai_throws(utf8_input) THEN <<>>
                                ELSE utf8_to_dab_thai(utf8_input)]
    /\ UNCHANGED <<streamVars, dlsVars, metaVars>>

\* a call of the static truncate_thai_text(utf8_text, max_length)
TruncateThaiText(utf8_text, max_length) ==
    /\ util_call' = [op |-> "truncate_thai_text", utf8_text |-> utf8_text,
                     max_length |-> max_length,
                     result |-> truncate_thai_text(utf8_text, max_length)]
    /\ UNCHANGED <<streamVars, dlsVars, metaVars>>

\* the DLS of a DAB text: the charset indicator, then the text
WithCharset(dab_text) == <<DAB_THAI_CHARSET>> \o dab_text

\* ThaiDLSProcessor::process_thai_text: what it returns and what it leaves in
\* current_segment_, or that the first utf8_to_dab_thai threw (there is no
\* handler: the exception leaves the function)
process_thai_text_on(segment, utf8_text) ==
    IF utf8_text = <<>>
    THEN [threw |-> FALSE, result |-> <<>>, segment |-> segment]
    ELSE IF utf8_to_dab_thai_throws(utf8_text)
    THEN [threw |-> TRUE, result |-> <<>>, segment |-> segment]
    ELSE IF calculate_display_width(utf8_text) <= max_segment_length_
    THEN LET result == WithCharset(utf8_to_dab_thai(utf8_text))
         IN  [threw |-> FALSE, result |-> result, segment |-> result]
    ELSE IF scrolling_enabled_
    THEN LET truncated == truncate_thai_text(utf8_text, max_segment_length_ - 1)
             result == WithCharset(utf8_to_dab_thai(truncated))
         IN  [threw |-> FALSE, result |-> result, segment |-> result]
    ELSE [threw |-> FALSE, result |-> segment, segment |-> segment]

\* on the processor as it is: segment is current_segment_
process_thai_text(utf8_text) == process_thai_text_on(current_segment_, utf8_text)

\* a call of process_thai_text(utf8_text)
ProcessThaiText(utf8_text) ==
    /\ dls_text' = utf8_text
    /\ dls_out' = process_thai_text(utf8_text).result
    /\ dls_call' = IF process_thai_text(utf8_text).threw THEN "threw" ELSE "returned"
    /\ current_segment_' = process_thai_text(utf8_text).segment
    /\ UNCHANGED <<max_segment_length_, scrolling_enabled_, streamVars, util_call,
                   metaVars>>

DLSNext == \E utf8_text \in Texts : ProcessThaiText(utf8_text)

\* a DLS processor constructed with any segment length and scrolling mode
InitDLS ==
    /\ StreamInit
    /\ TextInit
    /\ \E max_length \in 1..MaxSegLen, scrolling \in BOOLEAN :
          ThaiDLSProcessor(max_length, scrolling)

SpecDLS == InitDLS /\ [][DLSNext]_vars

(***************************************************************************)
(* ThaiMetadataProcessor: cleaning, language detection, conversion and the *)
(* cumulative counters.                                                    *)
(***************************************************************************)
\* ThaiUtils::remove_control_characters keeps a char c when c >= 32 or c is
\* tab, newline or carriage return.  A unit above ASCII is made of bytes
\* 0x80..0xFF, which are negative, hence dropped, where plain char is signed.
KeptChar(unit) ==
    IF unit > 127 THEN ~plain_char_signed
    ELSE unit >= 32 \/ unit \in {9, 10, 13}

remove_control_characters(input) == SelectSeq(input, KeptChar)

\* isspace(c) in the "C" locale
isspace(unit) == unit \in {32, 9, 10, 11, 12, 13}

\* the loop of normalize_whitespace: a run of whitespace becomes one space
RECURSIVE CollapseLoop(_, _)
CollapseLoop(input, in_whitespace) ==
    IF input = <<>> THEN <<>>
    ELSE IF isspace(Head(input))
    THEN (IF in_whitespace THEN <<>> ELSE <<32>>) \o CollapseLoop(Tail(input), TRUE)
    ELSE <<Head(input)>> \o CollapseLoop(Tail(input), FALSE)

\* ThaiUtils::normalize_whitespace: collapse, then trim one space at each end
normalize_whitespace(input) ==
    LET result == CollapseLoop(input, FALSE)
        front == IF result # <<>> /\ Head(result) = 32 THEN Tail(result) ELSE result
    IN  IF front # <<>> /\ front[Len(front)] = 32
        THEN SubSeq(front, 1, Len(front) - 1)
        ELSE front

\* ThaiCharsetConverter::normalize_thai_text
normalize_thai_text(input) == normalize_whitespace(remove_control_characters(input))

\* ThaiMetadataProcessor::clean_metadata_field
clean_metadata_field(input) ==
    normalize_thai_text(normalize_whitespace(remove_control_characters(input)))

\* ThaiLanguageDetector::analyze_language_composition: the two counts
ThaiCharCount(codepoints) ==
    Cardinality({i \in 1..Len(codepoints) :
                    codepoints[i] >= THAI_BLOCK_START /\ codepoints[i] <= THAI_BLOCK_END})

\* ThaiLanguageDetector::is_thai_text(text) with its default threshold 0.7:
\* get_thai_confidence is 0 for the empty text and thai_char_count /
\* total_char_count otherwise (0 when no codepoint was decoded)
is_thai_text(text) ==
    LET codepoints == utf8_to_codepoints(text)
    IN  /\ text # <<>>
        /\ codepoints # <<>>
        /\ 10 * ThaiCharCount(codepoints) >= 7 * Len(codepoints)

\* ThaiLanguageDetector::analyze_language_composition: every decoded
\* codepoint counts in the total; one of the Thai block counts as Thai, else an
\* ASCII letter as English.  thai_percentage is the quotient
\* thai_char_count / total_char_count, kept as numerator and denominator, and
\* stays 0.0 when nothing was decoded.
analyze_language_composition(text) ==
    LET codepoints == utf8_to_codepoints(text)
        thai == ThaiCharCount(codepoints)
        english == Cardinality({i \in 1..Len(codepoints) :
                                   \/ codepoints[i] \in 65..90
                                   \/ codepoints[i] \in 97..122})
        total == Len(codepoints)
    IN  [thai_char_count |-> thai,
         english_char_count |-> english,
         total_char_count |-> total,
         thai_percentage |-> IF total > 0 THEN [num |-> thai, den |-> total]
                             ELSE [num |-> 0, den |-> 1]]

\* ThaiLanguageDetector::get_thai_confidence
get_thai_confidence(text) ==
    IF text = <<>> THEN [num |-> 0, den |-> 1]
    ELSE analyze_language_composition(text).thai_percentage

\* a threshold that lets a confidence equal to it pass as well as one above
\* it is not: telling the two apart needs a text exactly on the threshold
is_thai_text_strict(text, threshold) ==
    LET confidence == get_thai_confidence(text)
    IN  10 * confidence.num > threshold * confidence.den

\* ThaiLanguageDetector::is_thai_text(text, threshold), the threshold in
\* tenths: get_thai_confidence(text) >= threshold
is_thai_text_at(text, threshold) ==
    LET confidence == get_thai_confidence(text)
    IN  10 * confidence.num >= threshold * confidence.den

\* the Thai codepoints of a field that the else branch of utf8_to_dab_thai
\* turns into '?' (none when the conversion throws)
ThaiReplaced(text) ==
    IF utf8_to_dab_thai_throws(text) THEN 0
    ELSE Cardinality({i \in 1..Len(text) :
                         /\ text[i] >= THAI_BLOCK_START
                         /\ text[i] <= THAI_BLOCK_END
                         /\ ~InDabMap(text[i])})

\* the position of the first field whose conversion throws, 5 when none does
FirstThrow(fields) ==
    IF \E i \in 1..4 : utf8_to_dab_thai_throws(fields[i])
    THEN CHOOSE i \in 1..4 :
            /\ utf8_to_dab_thai_throws(fields[i])
            /\ \A j \in 1..(i - 1) : ~utf8_to_dab_thai_throws(fields[j])
    ELSE 5

\* the record process_raw_metadata builds from its four arguments (title,
\* artist, album, station): the cleaned fields; is_thai_content from title +
\* " " + artist; the DAB fields assigned in order inside the try block, up to
\* the first conversion that throws; caught says that one threw
MetadataOf(raw) ==
    LET utf8 == [i \in 1..4 |-> clean_metadata_field(raw[i])]
        thai == is_thai_text(utf8[1] \o <<32>> \o utf8[2])
        first == FirstThrow(utf8)
    IN  [utf8 |-> utf8,
         dab |-> [i \in 1..4 |-> IF thai /\ i < first
                                 THEN utf8_to_dab_thai(utf8[i]) ELSE <<>>],
         is_thai_content |-> thai,
         thai_confidence |-> get_thai_confidence(utf8[1] \o <<32>> \o utf8[2]),
         caught |-> thai /\ first <= 4,
         replaced |-> LET in(i) == IF thai /\ i < first
                                   THEN ThaiReplaced(utf8[i]) ELSE 0
                      IN  in(1) + in(2) + in(3) + in(4)]

RECURSIVE GCD(_, _)
GCD(a, b) == IF b = 0 THEN a ELSE GCD(b, a % b)

\* a quotient in lowest terms
Quotient(num, den) ==
    IF num = 0 THEN [num |-> 0, den |-> 1]
    ELSE [num |-> num \div GCD(num, den), den |-> den \div GCD(num, den)]

\* the sum of two quotients
QuotientSum(p, q) == Quotient(p.num * q.den + q.num * p.den, p.den * q.den)

\* a faulty average that weighs the old average with the new count instead of
\* the old one: right for the first Thai record only
RunningAverageOverweighted(average, detected, confidence) ==
    Quotient(average.num * detected * confidence.den + confidence.num * average.den,
             average.den * confidence.den * detected)

\* stats_.average_thai_confidence after the detected-th Thai record:
\* (average * (detected - 1) + confidence) / detected
RunningAverage(average, detected, confidence) ==
    Quotient(average.num * (detected - 1) * confidence.den + confidence.num * average.den,
             average.den * confidence.den * detected)

\* the counter a thread is about to increment, by its position
CounterAt(pc) ==
    IF pc \in {"errors_load", "errors_store"} THEN "conversion_errors"
    ELSE IF pc \in {"total_load", "total_store"} THEN "total_metadata_processed"
    ELSE "thai_content_detected"

MetaFrame == UNCHANGED <<streamVars, dlsVars, util_call, plain_char_signed>>

\* process_raw_metadata(raw_title, raw_artist, raw_album, raw_station) on
\* thread: the record is built (the catch block entered if a conversion
\* threw); the counters are next
ProcessRawMetadata(thread, raw) ==
    /\ meta_pc[thread] = "idle"
    /\ meta_done.begun < MaxMetaCalls
    /\ LET result == MetadataOf(raw)
       IN  /\ meta_reg' = [meta_reg EXCEPT ![thread] =
                              [thai |-> result.is_thai_content,
                               threw |-> result.caught, loaded |-> 0,
                               replaced |-> result.replaced,
                               confidence |-> result.thai_confidence]]
           /\ meta_pc' = [meta_pc EXCEPT ![thread] =
                             IF result.caught THEN "errors_load" ELSE "total_load"]
           /\ meta_call' = [op |-> "process_raw_metadata", thread |-> thread,
                            raw |-> raw, result |-> result]
    /\ meta_done' = [meta_done EXCEPT !.begun = @ + 1]
    /\ UNCHANGED stats_
    /\ MetaFrame

\* the read of stats_.<counter>++ (stats_ is a plain struct: no lock, no atomic)
MetaLoad(thread) ==
    /\ meta_pc[thread] \in {"errors_load", "total_load", "thai_load"}
    /\ meta_reg' = [meta_reg EXCEPT ![thread].loaded = stats_[CounterAt(meta_pc[thread])]]
    /\ meta_pc' = [meta_pc EXCEPT ![thread] =
                      IF @ = "errors_load" THEN "errors_store"
                      ELSE IF @ = "total_load" THEN "total_store"
                      ELSE "thai_store"]
    /\ meta_call' = NoMetaCall
    /\ UNCHANGED <<stats_, meta_done>>
    /\ MetaFrame

\* the write of stats_.<counter>++; after the last counter the call returns
MetaStore(thread) ==
    /\ meta_pc[thread] \in {"errors_store", "total_store", "thai_store"}
    /\ stats_' = IF meta_pc[thread] = "thai_store"
                 THEN [stats_ EXCEPT
                          !.thai_content_detected = meta_reg[thread].loaded + 1,
                          !.average_thai_confidence =
                              RunningAverage(@, meta_reg[thread].loaded + 1,
                                             meta_reg[thread].confidence)]
                 ELSE [stats_ EXCEPT ![CounterAt(meta_pc[thread])] =
                                         meta_reg[thread].loaded + 1]
    /\ LET returns == \/ meta_pc[thread] = "thai_store"
                      \/ meta_pc[thread] = "total_store" /\ ~meta_reg[thread].thai
       IN  /\ meta_pc' = [meta_pc EXCEPT ![thread] =
                             IF returns THEN "idle"
                             ELSE IF @ = "errors_store" THEN "total_load"
                             ELSE "thai_load"]
           /\ meta_done' = IF returns
                           THEN [meta_done EXCEPT
                                    !.calls = @ + 1,
                                    !.thai = @ + (IF meta_reg[thread].thai THEN 1 ELSE 0),
                                    !.confidence_sum =
                                        IF meta_reg[thread].thai
                                        THEN QuotientSum(@, meta_reg[thread].confidence)
                                        ELSE @]
                           ELSE meta_done
    /\ meta_call' = NoMetaCall
    /\ UNCHANGED meta_reg
    /\ MetaFrame

\* reset_stats(), between two calls: the statistics as constructed
ResetStats ==
    /\ \A t \in MetaThreads : meta_pc[t] = "idle"
    /\ stats_' = ProcessingStats
    /\ meta_done' = NoMetaDone
    /\ meta_call' = [op |-> "reset_stats"]
    /\ UNCHANGED <<meta_pc, meta_reg>>
    /\ MetaFrame

\* a faulty choice that falls back to the station as soon as the title is
\* missing: the priority property must tell it from DlsTextOf
DlsTextStationFirst(title_utf8, artist_utf8, station_utf8) ==
    IF title_utf8 = <<>> THEN station_utf8
    ELSE IF artist_utf8 # <<>> THEN title_utf8 \o <<32, 45, 32>> \o artist_utf8
    ELSE title_utf8

\* the text generate_dls_from_metadata hands to dls_processor_: "title -
\* artist", the title, the artist, or else the station
DlsTextOf(title_utf8, artist_utf8, station_utf8) ==
    LET dls_text_ == IF title_utf8 # <<>>
                     THEN (IF artist_utf8 # <<>>
                           THEN title_utf8 \o <<32, 45, 32>> \o artist_utf8
                           ELSE title_utf8)
                     ELSE artist_utf8
    IN  IF dls_text_ = <<>> THEN station_utf8 ELSE dls_text_

\* generate_dls_from_metadata(metadata): dls_processor_.process_thai_text on
\* that text, with no handler around it
GenerateDlsFromMetadata(title_utf8, artist_utf8, station_utf8) ==
    /\ \A t \in MetaThreads : meta_pc[t] = "idle"
    /\ LET text == DlsTextOf(title_utf8, artist_utf8, station_utf8)
           call == process_thai_text(text)
       IN  /\ dls_text' = text
           /\ dls_out' = call.result
           /\ dls_call' = IF call.threw THEN "threw" ELSE "returned"
           /\ current_segment_' = call.segment
           /\ meta_call' = [op |-> "generate_dls_from_metadata",
                            metadata |-> <<title_utf8, artist_utf8, station_utf8>>,
                            threw |-> call.threw, result |-> call.result]
    /\ UNCHANGED <<max_segment_length_, scrolling_enabled_, streamVars, util_call,
                   plain_char_signed, stats_, meta_pc, meta_reg, meta_done>>

\* the metadata fields drawn: empty, " A", KO KAI once and MaxTextLen times,
\* MaxTextLen times THO THAN (a consonant the table has no entry for), and a
\* byte that is not UTF-8
MetaFields ==
    {<<>>, <<32, 65>>, <<3585>>, [i \in 1..MaxTextLen |-> 3585],
     [i \in 1..MaxTextLen |-> 3600], <<StrayByte>>}

\* a ThaiMetadataProcessor in either build; its dls_processor_ is
\* ThaiDLSProcessor(MAX_DLS_LENGTH_THAI, true).  The stream processor is not
\* part of it: it stays as constructed, on the primary URL alone.
InitMeta ==
    /\ StreamInit
    /\ config_.fallback_urls = <<>>
    /\ util_call = NoUtilCall
    /\ ThaiDLSProcessor(MAX_DLS_LENGTH_THAI, TRUE)
    /\ \E char_signed \in BOOLEAN : ThaiMetadataProcessor(char_signed)

\* one caller of process_raw_metadata at a time
MetaNext ==
    \/ \E raw \in [1..4 -> MetaFields] : ProcessRawMetadata(1, raw)
    \/ MetaLoad(1)
    \/ MetaStore(1)

SpecMeta == InitMeta /\ [][MetaNext]_vars

\* one caller that processes records and resets the statistics
StatsNext ==
    \/ \E raw \in [1..4 -> MetaFields] : ProcessRawMetadata(1, raw)
    \/ MetaLoad(1)
    \/ MetaStore(1)
    \/ ResetStats

SpecStats == InitMeta /\ [][StatsNext]_vars

\* several threads calling process_raw_metadata(raw_title), the other
\* arguments defaulted to ""
MetaThreadsNext ==
    \/ \E t \in MetaThreads, raw_title \in MetaFields :
          ProcessRawMetadata(t, <<raw_title, <<>>, <<>>, <<>> >>)
    \/ \E t \in MetaThreads : MetaLoad(t)
    \/ \E t \in MetaThreads : MetaStore(t)

SpecMetaThreads == InitMeta /\ [][MetaThreadsNext]_vars

\* generate_dls_from_metadata on any record
MetaDlsNext ==
    \E title_utf8 \in MetaFields, artist_utf8 \in MetaFields, station_utf8 \in MetaFields :
        GenerateDlsFromMetadata(title_utf8, artist_utf8, station_utf8)

SpecMetaDls == InitMeta /\ [][MetaDlsNext]_vars

\* the static functions of ThaiCharsetConverter applied to any text, in either
\* build
UtilNext ==
    \/ \E utf8_text \in Texts, max_length \in 0..MaxTextLen :
          TruncateThaiText(utf8_text, max_length)
    \/ \E utf8_input \in Texts \cup {<<cp>> : cp \in CodepointsDrawn} :
          Utf8ToDabThai(utf8_input)

SpecUtil == InitMeta /\ [][UtilNext]_vars

\* the units texts to normalise are made of: a control character (SOH), tab,
\* vertical tab, space, 'A' and KO KAI
NormalizeUnits == {1, 9, 11, 32, 65, 3585}

NormalizeTexts == UNION {[1..n -> NormalizeUnits] : n \in 0..MaxTextLen}

\* a call of the static normalize_thai_text(input)
NormalizeThaiText(input) ==
    /\ util_call' = [op |-> "normalize_thai_text", input |-> input,
                     result |-> normalize_thai_text(input)]
    /\ UNCHANGED <<streamVars, dlsVars, metaVars>>

NormalizeNext == \E input \in NormalizeTexts : NormalizeThaiText(input)

\* normalize_thai_text applied to any text, in either build
SpecNormalize == InitMeta /\ [][NormalizeNext]_vars

\* the largest int
IntMax == 2147483647

\* ThaiMetadata::BuddhistDate as its member initialisers leave it
BuddhistDate == [year |-> 0, month |-> 0, day |-> 0, is_valid |-> FALSE]

\* a faulty validity test that forgets the year: the calendar property must
\* tell it from is_valid_buddhist_date
is_valid_buddhist_date_any_year(be_year, month, day) ==
    month >= 1 /\ month <= 12 /\ day >= 1 /\ day <= 31

\* BuddhistCalendar::is_valid_buddhist_date
is_valid_buddhist_date(be_year, month, day) ==
    be_year > 0 /\ month >= 1 /\ month <= 12 /\ day >= 1 /\ day <= 31

\* BuddhistCalendar::gregorian_to_buddhist(year, month, day) where year + 543
\* is an int
gregorian_to_buddhist(year, month, day) ==
    IF is_valid_buddhist_date(year + 543, month, day)
    THEN [year |-> year + 543, month |-> month, day |-> day, is_valid |-> TRUE]
    ELSE BuddhistDate

\* what a build can make of gregorian_to_buddhist where year + 543 overflows
\* (undefined behaviour): the sum wraps to a negative year and the date is
\* invalid, or the test is compiled as year > -543 and the wrapped year is
\* stored in a date marked valid
OverflowedDates(year, month, day) ==
    {BuddhistDate} \cup
    (IF is_valid_buddhist_date(1, month, day)
     THEN {[year |-> (year - IntMax - 1) + (543 - IntMax - 1),
            month |-> month, day |-> day, is_valid |-> TRUE]}
     ELSE {})

\* a call of the static gregorian_to_buddhist(year, month, day)
GregorianToBuddhist(year, month, day) ==
    /\ \E result \in (IF year > IntMax - 543
                       THEN OverflowedDates(year, month, day)
                       ELSE {gregorian_to_buddhist(year, month, day)}) :
          util_call' = [op |-> "gregorian_to_buddhist", year |-> year,
                        month |-> month, day |-> day, result |-> result]
    /\ UNCHANGED <<streamVars, dlsVars, metaVars>>

\* the years, months and days tried: around year 0 of the Buddhist era, the
\* present, the largest ints, and both ends of the month and day ranges
Years == {-544, -543, -542, 0, 2024, IntMax - 543, IntMax - 542, IntMax}
Months == -1..13
Days == {-1, 0, 1, 31, 32}

CalendarNext ==
    \E year \in Years, month \in Months, day \in Days :
        GregorianToBuddhist(year, month, day)

\* gregorian_to_buddhist applied to any date
SpecCalendar == InitMeta /\ [][CalendarNext]_vars

\* the units texts given to the detector are made of: space, 'A', KO KAI and a
\* byte that is not UTF-8
DetectUnits == {32, 65, 3585, StrayByte}

DetectTexts == UNION {[1..n -> DetectUnits] : n \in 0..MaxTextLen}

\* the thresholds tried, in tenths: 0.0, 0.5, the default 0.7, and 1.0
Thresholds == {0, 5, 7, 10}

\* a call of detector.is_thai_text(text, threshold); what
\* analyze_language_composition and get_thai_confidence give for the same
\* text is recorded with it
IsThaiText(text, threshold) ==
    /\ util_call' = [op |-> "is_thai_text", text |-> text, threshold |-> threshold,
                     stats |-> analyze_language_composition(text),
                     confidence |-> get_thai_confidence(text),
                     result |-> is_thai_text_at(text, threshold)]
    /\ UNCHANGED <<streamVars, dlsVars, metaVars>>

DetectNext ==
    \E text \in DetectTexts, threshold \in Thresholds : IsThaiText(text, threshold)

\* the language detector applied to any text
SpecDetect == InitMeta /\ [][DetectNext]_vars

(***************************************************************************)
(* Properties of the stream processor.                                     *)
(***************************************************************************)
\* the endpoints in the order the specification gives: primary, then the
\* fallbacks in list order
EndpointOrder == <<config_.primary_url>> \o config_.fallback_urls

SomeReachable(reach) == \E i \in 1..Len(EndpointOrder) : EndpointOrder[i] \in reach

\* the position in EndpointOrder of the first endpoint reach holds
FirstReachable(reach) ==
    CHOOSE i \in 1..Len(EndpointOrder) :
        /\ EndpointOrder[i] \in reach
        /\ \A j \in 1..(i - 1) : EndpointOrder[j] \notin reach

IsPrefix(s, t) == Len(s) <= Len(t) /\ SubSeq(t, 1, Len(s)) = s

\* start_stream has just returned true, having tried the endpoints in order up
\* to the first reachable one, which is now the current endpoint; the
\* processor is running and connected and the monitor thread exists
StartedOnFirstReachable ==
    /\ SomeReachable(last_call.reach)
    /\ last_call.tried = SubSeq(EndpointOrder, 1, FirstReachable(last_call.reach))
    /\ get_current_url = EndpointOrder[FirstReachable(last_call.reach)]
    /\ running_
    /\ connected_
    /\ monitor_thread_ = "joinable"
    /\ mon_pc # "none"

\* C1 (as amended): a start_stream called on a processor that is not running
\* attempts the primary and then the fallbacks in list order, stopping at the
\* first success; when it returns true the current endpoint is the first
\* reachable one in that order, running and connected are true and the monitor
\* thread has been started.
C1_StartFromStopped ==
    [][(last_call'.op = "start_stream" /\ ~running_)
         => /\ IsPrefix(last_call'.tried, EndpointOrder)
            /\ last_call'.ret => StartedOnFirstReachable'
            /\ ~last_call'.ret => last_call'.tried = EndpointOrder /\ ~running_']_vars

\* C1 (as stated): whenever start_stream returns true, the current endpoint is
\* the first reachable one, running and connected are true and the monitor
\* thread has been started.
C1_StartAlways ==
    (last_call.op = "start_stream" /\ last_call.ret) => StartedOnFirstReachable

\* start_stream returned true on fallback F1 after the primary and F0 failed
C1_StartedOnSecondFallback ==
    /\ last_call.op = "start_stream"
    /\ last_call.ret
    /\ last_call.reach = {"F1"}
    /\ last_call.tried = <<"P", "F0", "F1">>
    /\ current_fallback_index_ = 1
    /\ running_ /\ connected_

\* the attempts of a reconnect cycle begun on index start: the primary if start
\* is a fallback, then fallback (start + 1) mod N
CycleOrder(start) ==
    (IF start # -1 THEN <<config_.primary_url>> ELSE <<>>)
    \o (IF NumFallbacks > 0
        THEN <<config_.fallback_urls[((start + 1) % NumFallbacks) + 1]>>
        ELSE <<>>)

\* the attempts the monitor has made in the cycle in progress are the ones
\* CycleOrder gives, as far as the cycle has come, and the index is the one
\* the cycle began on
CycleInOrder ==
    /\ mon_pc \in {"open_primary", "open_fallback", "waiting"}
         => /\ cycle.start_index = current_fallback_index_
            /\ IsPrefix(cycle.attempts, CycleOrder(cycle.start_index))
    /\ mon_pc = "open_primary"
         => cycle.start_index # -1 /\ cycle.attempts = <<config_.primary_url>>
    /\ mon_pc \in {"open_fallback", "waiting"}
         => cycle.attempts = CycleOrder(cycle.start_index)

\* a step of the monitor's reconnect cycle: the index changes only when the
\* attempt in progress succeeds, and a success leaves the processor connected
\* on the endpoint attempted
IndexFollowsSuccess ==
    /\ (mon_pc # "none" /\ current_fallback_index_' # current_fallback_index_)
         => mon_pc \in {"open_primary", "open_fallback"} /\ mon_pc' = "health"
    /\ (mon_pc \in {"open_primary", "open_fallback"} /\ mon_pc' = "health")
         => /\ connected_'
            /\ get_current_url' = cycle.attempts[Len(cycle.attempts)]

\* C2: the monitor that finds the stream disconnected retries the primary
\* first if the current endpoint is a fallback, and otherwise, or if that
\* fails, attempts fallback (current + 1) mod N, wrapping to the first; the
\* current index changes only when an attempt succeeds and then names the
\* endpoint that succeeded.
C2_FailoverOrder == [][CycleInOrder' /\ IndexFollowsSuccess]_vars

\* on the last of two fallbacks the primary retry has failed and the monitor
\* attempts the first fallback: the wrap-around
C2_WrapAround ==
    /\ NumFallbacks = 2
    /\ mon_pc = "open_fallback"
    /\ cycle.start_index = 1
    /\ cycle.attempts = <<"P", "F0">>
    /\ running_ /\ ~connected_

\* C3: while the processor is running and disconnected, every reconnect cycle
\* that ends in the wait has made at least one connection attempt, for every
\* configuration, with or without fallback URLs.
C3_EveryCycleAttempts ==
    (running_ /\ mon_pc = "waiting") => cycle.attempts # <<>>

\* C4: when the monitor makes its health check while connected, the last block
\* get_samples returned was silent and the stream has carried no non-silent
\* audio for more than silence_timeout_s, the check sets the state to
\* disconnected.
C4_SilenceDisconnects ==
    [][(/\ mon_pc = "health" /\ mon_pc' # "health"
        /\ connected_
        /\ audio_pc = "idle" /\ metrics_.is_silence
        /\ since_last_sound > config_.silence_timeout_s)
         => ~connected_']_vars

\* C5: once stop_stream has cleared the running flag, the monitor starts no
\* connection attempt and makes at most one more wait before it leaves its
\* loop.
C5_NoAttemptAfterStop ==
    ctrl_pc = "joining" => after_stop.attempts = 0 /\ after_stop.waits <= 1

\* C7: every read and write of the metrics group is made with the metrics
\* mutex held.
C7_MetricsUnderLock == metrics_access.locked

\* C8: a negative read marks the connection lost, returns the negative value
\* and leaves the metrics and last_audio alone; the running monitor that makes
\* its next check after it starts a reconnect attempt.
C8_ReadErrorReconnects ==
    [][/\ (last_call'.op = "get_samples" /\ last_call'.ret < 0)
            => /\ ~connected_'
               /\ metrics_' = metrics_
               /\ rms_history_' = rms_history_
               /\ since_last_audio' = since_last_audio
       /\ (/\ last_call.op = "get_samples" /\ last_call.ret < 0
           /\ running_
           /\ mon_pc = "check" /\ mon_pc' # "check")
            => mon_pc' \in {"open_primary", "open_fallback"}]_vars

\* C9: while the processor is disconnected or has no input, get_samples starts
\* no read and leaves the caller's buffer and the gain state alone; the call
\* returns 0 and changes neither the metrics nor last_audio.
C9_DisconnectedGetSamples ==
    [][(audio_pc = "idle" /\ (vlc_input_ = "null" \/ ~connected_))
         => /\ audio_pc' = "idle"
            /\ samples' = samples
            /\ current_gain_' = current_gain_
            /\ target_gain_' = target_gain_
            /\ rms_history_' = rms_history_
            /\ blocks_read' = blocks_read
            /\ last_call'.op = "get_samples"
                 => /\ last_call'.ret = 0
                    /\ last_call'.tried = <<>>
                    /\ metrics_' = metrics_
                    /\ since_last_audio' = since_last_audio
                    /\ connected_' = connected_]_vars

\* get_samples has returned 0 without a read on a running, disconnected
\* processor whose buffer and metrics hold the last block
C9_ReturnedZeroDisconnected ==
    /\ last_call.op = "get_samples"
    /\ last_call.tried = <<>>
    /\ running_ /\ ~connected_
    /\ vlc_input_ = "input"
    /\ samples # <<>>
    /\ metrics_.volume_rms > 0

\* C10: when stop_stream has returned the processor is stopped: running and
\* connected are false and there is no monitor thread, so that a second call
\* changes none of them.
C10_StoppedAfterStop ==
    last_call.op = "stop_stream"
        => ~running_ /\ ~connected_ /\ monitor_thread_ = "none"

\* C11: when start_stream returns false (every attempt failed, or there is no
\* input) the processor is not running and not connected, no monitor thread
\* exists and the current endpoint is the primary.
C11_FailedStartLeavesStopped ==
    (last_call.op = "start_stream" /\ ~last_call.ret)
        => /\ ~running_
           /\ ~connected_
           /\ monitor_thread_ = "none"
           /\ get_current_url = config_.primary_url

(***************************************************************************)
(* Properties of the health accessors (checked with a client polling       *)
(* is_healthy, SpecHealth).                                                *)
(***************************************************************************)
\* the conditions of the specification on what an accessor read, the silence
\* measured in whole seconds against the integer half of the timeout
IssuesInWholeSeconds(saw) ==
    {issue \in {"Stream disconnected", "Prolonged silence detected",
                "Frequent buffer underruns", "Very low audio level"} :
        \/ issue = "Stream disconnected" /\ ~saw.connected
        \/ issue = "Prolonged silence detected"
             /\ saw.elapsed \div 2 > config_.silence_timeout_s \div 2
        \/ issue = "Frequent buffer underruns" /\ saw.underruns > 10
        \/ issue = "Very low audio level" /\ 1000 * saw.rms < FullScale}

\* the same with the silence compared exactly: elapsed / 2 > timeout / 2
IssuesExact(saw) ==
    {issue \in {"Stream disconnected", "Prolonged silence detected",
                "Frequent buffer underruns", "Very low audio level"} :
        \/ issue = "Stream disconnected" /\ ~saw.connected
        \/ issue = "Prolonged silence detected"
             /\ saw.elapsed > config_.silence_timeout_s
        \/ issue = "Frequent buffer underruns" /\ saw.underruns > 10
        \/ issue = "Very low audio level" /\ 1000 * saw.rms < FullScale}

\* C12 (as amended): get_health_issues reports an issue exactly for each
\* condition that holds of the values it read, the time since last_audio being
\* taken in whole seconds and compared with silence_timeout_s / 2 in integer
\* division; is_healthy returns true exactly when that set is empty.
C12_HealthIssuesWholeSeconds ==
    last_call.op \in {"get_health_issues", "is_healthy"}
        => /\ last_call.issues = IssuesInWholeSeconds(last_call.saw)
           /\ last_call.op = "is_healthy"
                => (last_call.ret <=> IssuesInWholeSeconds(last_call.saw) = {})

\* C12 (as stated): an issue is reported exactly for each condition that
\* holds, the silence condition being that the time since last_audio exceeds
\* half of silence_timeout_s.
C12_HealthIssuesExact ==
    last_call.op \in {"get_health_issues", "is_healthy"}
        => /\ last_call.issues = IssuesExact(last_call.saw)
           /\ last_call.op = "is_healthy"
                => (last_call.ret <=> IssuesExact(last_call.saw) = {})

\* is_healthy has returned false on the silence alone: its get_health_issues
\* saw the stream connected and audible, and more than half the timeout
\* elapsed since last_audio
C12_SilenceReported ==
    /\ last_call.op = "is_healthy"
    /\ ~last_call.ret
    /\ last_call.issues = {"Prolonged silence detected"}
    /\ last_call.saw.connected
    /\ last_call.saw.rms > 0

\* C13: is_healthy called on a processor that was initialized and has made no
\* connection yet returns true.
C13_HealthyAfterInitialize ==
    (/\ last_call.op = "is_healthy"
     /\ vlc_input_ = "input"
     /\ ~running_
     /\ metrics_.reconnect_count = 0)
        => last_call.ret

\* C14: the fallback index is -1 or a valid index into the configured
\* fallback list, and get_current_url() is never the empty string (the
\* configurations always name a primary URL).
C14_OneCurrentEndpoint ==
    /\ current_fallback_index_ \in -1..(NumFallbacks - 1)
    /\ get_current_url # ""

(***************************************************************************)
(* Properties of the DLS encoder.                                          *)
(***************************************************************************)
\* C6: for every non-empty text and every configured maximum, the bytes
\* process_thai_text returns, charset indicator included, number at most
\* max_segment_length_.
C6_DLSWithinMax ==
    dls_text # <<>> => Len(dls_out) <= max_segment_length_

\* C18: process_thai_text("") returns the empty sequence; for a non-empty
\* valid text it returns a non-empty sequence, the charset indicator 0x0E
\* followed by the encoded payload of the text (all of it, or as much of it
\* as the segment holds).
C18_IndicatorThenPayload ==
    (dls_call = "returned" /\ is_valid_thai_utf8(dls_text))
        => IF dls_text = <<>>
           THEN dls_out = <<>>
           ELSE /\ dls_out # <<>>
                /\ dls_out[1] = DAB_THAI_CHARSET
                /\ IsPrefix(Tail(dls_out), utf8_to_dab_thai(dls_text))

\* C19: the bytes process_thai_text returns depend on the text and on the
\* configuration of the processor only, never on earlier calls: they are the
\* bytes a processor of that configuration returns for the text as its first
\* call.
C19_NoStateAcrossCalls ==
    dls_call = "returned"
        => dls_out = process_thai_text_on(<<>>, dls_text).result

(***************************************************************************)
(* Properties of the static text functions (SpecUtil).                     *)
(***************************************************************************)
\* C17: truncate_thai_text(s, n) has display length at most n; it is a prefix
\* of s, so a combining mark is only kept together with everything before it,
\* its base included; and it never ends between a base and a mark: a
\* combining mark that directly follows a kept character of s is kept too.
C17_TruncateKeepsClusters ==
    util_call.op = "truncate_thai_text"
        => LET s == util_call.utf8_text
               r == util_call.result
           IN  /\ calculate_thai_display_length(r) <= util_call.max_length
               /\ IsPrefix(r, s)
               /\ \A i \in 1..Len(r) :
                     (i < Len(s) /\ ~adds_width(s[i + 1])) => i + 1 <= Len(r)

\* a truncation that cut the text, right after a base and its tone mark
C17_CutAfterMark ==
    /\ util_call.op = "truncate_thai_text"
    /\ Len(util_call.result) = 2
    /\ Len(util_call.utf8_text) = 3
    /\ adds_width(util_call.result[1])
    /\ is_thai_tone_mark(util_call.result[2])

(***************************************************************************)
(* Properties of the metadata processor (SpecMeta: one caller;             *)
(* SpecMetaThreads: concurrent callers; SpecMetaDls: DLS generation).      *)
(***************************************************************************)
\* C15: when Thai content is detected and a conversion throws, the record
\* process_raw_metadata returns has its four DAB fields empty and its four
\* UTF-8 fields as cleaned; the call returns, and (for the first call on a
\* processor) conversion_errors is then exactly one.
C15_DegradesToUtf8Only ==
    /\ (/\ meta_call.op = "process_raw_metadata"
        /\ meta_call.result.is_thai_content
        /\ meta_call.result.caught)
           => /\ \A i \in 1..4 : meta_call.result.dab[i] = <<>>
              /\ \A i \in 1..4 :
                    meta_call.result.utf8[i] = clean_metadata_field(meta_call.raw[i])
    /\ (meta_done.begun = 1 /\ meta_pc[1] = "idle" /\ meta_reg[1].threw)
           => stats_.conversion_errors = 1 /\ meta_done.calls = 1

\* C16: generate_dls_from_metadata returns normally for every record: no
\* InvalidUTF8 exception leaves it.
C16_NoFaultEscapes ==
    meta_call.op = "generate_dls_from_metadata" => ~meta_call.threw

\* C20: once every call of process_raw_metadata has completed,
\* total_metadata_processed is the number of calls and thai_content_detected
\* the number of them that detected Thai content.
C20_NoLostUpdate ==
    (\A t \in MetaThreads : meta_pc[t] = "idle")
        => /\ stats_.total_metadata_processed = meta_done.calls
           /\ stats_.thai_content_detected = meta_done.thai

(***************************************************************************)
(* Properties of the charset table (SpecUtil).                             *)
(***************************************************************************)
\* C21: a codepoint of the mapping table is encoded as one byte from which the
\* table read backwards gives that codepoint again; a codepoint that is not in
\* the table is encoded as the single byte '?'.
C21_TableRoundTrip ==
    (/\ util_call.op = "utf8_to_dab_thai"
     /\ ~util_call.threw
     /\ Len(util_call.utf8_text) = 1)
        => LET cp == util_call.utf8_text[1]
               dab == util_call.result
           IN  /\ Len(dab) = 1
               /\ IF InDabMap(cp)
                  THEN dab_to_utf8_map_(dab[1]) = cp
                  ELSE dab = <<63>>

\* KO KAI has been converted, to the byte 0x81
C21_KoKaiConverted ==
    /\ util_call.op = "utf8_to_dab_thai"
    /\ util_call.utf8_text = <<3585>>
    /\ util_call.result = <<129>>

(***************************************************************************)
(* Properties of the metadata statistics (SpecMeta).                       *)
(***************************************************************************)
\* C22: the Thai codepoints a call replaced by '?' are counted where the
\* caller can see it: once the first process_raw_metadata call has returned,
\* the error counter of the statistics is at least the number of codepoints
\* that call replaced.
C22_ReplacementsCounted ==
    (/\ meta_done.begun = 1
     /\ meta_done.calls = 1
     /\ meta_pc[1] = "idle")
        => stats_.conversion_errors >= meta_reg[1].replaced

(***************************************************************************)
(* Properties of the text normalisation (SpecNormalize).                   *)
(***************************************************************************)
\* a unit that is neither a control character nor whitespace
IsSolid(unit) == unit > 32

\* the whitespace runs of a text that lie between two solid units, control
\* characters (other than tab, newline, carriage return) set aside
InnerGaps(text) ==
    LET kept == SelectSeq(text, LAMBDA u : u >= 32 \/ u \in {9, 10, 13})
    IN  Cardinality({j \in 1..Len(kept) :
                        /\ ~IsSolid(kept[j])
                        /\ j < Len(kept) /\ IsSolid(kept[j + 1])
                        /\ \E k \in 1..(j - 1) : IsSolid(kept[k])})

\* C23: normalize_thai_text leaves every character that is neither control
\* nor whitespace unchanged and in order (the bytes of a Thai character in
\* particular); the result holds no control character, its only whitespace
\* is the single space, one for each whitespace run between two kept
\* characters, and none at either end.
C23_NormalizeKeepsText ==
    util_call.op = "normalize_thai_text"
        => LET input == util_call.input
               result == util_call.result
           IN  /\ SelectSeq(result, IsSolid) = SelectSeq(input, IsSolid)
               /\ \A i \in 1..Len(result) : IsSolid(result[i]) \/ result[i] = 32
               /\ \A i \in 1..(Len(result) - 1) : ~(result[i] = 32 /\ result[i + 1] = 32)
               /\ result # <<>> => result[1] # 32 /\ result[Len(result)] # 32
               /\ Len(result) = Len(SelectSeq(input, IsSolid)) + InnerGaps(input)

\* the same, for the builds whose plain char is unsigned
C23_NormalizeKeepsTextUnsigned ==
    ~plain_char_signed => C23_NormalizeKeepsText

\* a non-empty text of Thai-block characters only
IsThaiOnly(text) ==
    /\ text # <<>>
    /\ \A i \in 1..Len(text) : text[i] >= THAI_BLOCK_START /\ text[i] <= THAI_BLOCK_END

\* C24: process_raw_metadata on a title and an artist that are both non-empty
\* and wholly Thai yields a record flagged Thai whose confidence is above 0.7.
C24_ThaiDetected ==
    (/\ meta_call.op = "process_raw_metadata"
     /\ IsThaiOnly(meta_call.raw[1])
     /\ IsThaiOnly(meta_call.raw[2]))
        => /\ meta_call.result.is_thai_content
           /\ 10 * meta_call.result.thai_confidence.num
                > 7 * meta_call.result.thai_confidence.den

\* the same, for the builds whose plain char is unsigned
C24_ThaiDetectedUnsigned ==
    ~plain_char_signed => C24_ThaiDetected

(***************************************************************************)
(* Properties of the language detector (SpecDetect).                       *)
(***************************************************************************)
\* C25: the Thai confidence of a text is thai_count / total_count, lies in
\* [0, 1] and is 0 for the empty text; thai_count + english_count is at most
\* total_count; is_thai_text(text, threshold) is true exactly when the
\* confidence is at least the threshold.
C25_ConfidenceIsRatio ==
    util_call.op = "is_thai_text"
        => LET stats == util_call.stats
               confidence == util_call.confidence
           IN  /\ confidence.den > 0
               /\ stats.total_char_count > 0
                    => confidence.num * stats.total_char_count
                         = stats.thai_char_count * confidence.den
               /\ confidence.num >= 0 /\ confidence.num <= confidence.den
               /\ util_call.text = <<>> => confidence.num = 0
               /\ stats.thai_char_count + stats.english_char_count
                    <= stats.total_char_count
               /\ util_call.result
                    <=> 10 * confidence.num >= util_call.threshold * confidence.den

\* a text that is half Thai has been tested against the threshold 0.5, which
\* it meets exactly, and passed
C25_OnThreshold ==
    /\ util_call.op = "is_thai_text"
    /\ util_call.text = <<3585, 65>>
    /\ util_call.threshold = 5
    /\ util_call.result

(***************************************************************************)
(* Properties of the processing statistics (SpecStats).                    *)
(***************************************************************************)
\* C26: between calls, total_metadata_processed is the number of
\* process_raw_metadata calls since the last reset, thai_content_detected the
\* number of those flagged Thai (at most the total), conversion_errors is at
\* most thai_content_detected, and average_thai_confidence is the mean
\* confidence of the records flagged Thai; right after reset_stats every
\* counter is zero.
C26_StatsMatchLedger ==
    /\ meta_pc[1] = "idle"
          => /\ stats_.total_metadata_processed = meta_done.calls
             /\ stats_.thai_content_detected = meta_done.thai
             /\ stats_.thai_content_detected <= stats_.total_metadata_processed
             /\ stats_.conversion_errors <= stats_.thai_content_detected
             /\ stats_.average_thai_confidence.num * meta_done.confidence_sum.den
                   * meta_done.thai
                 = meta_done.confidence_sum.num * stats_.average_thai_confidence.den
    /\ meta_call.op = "reset_stats"
          => /\ stats_.total_metadata_processed = 0
             /\ stats_.thai_content_detected = 0
             /\ stats_.conversion_errors = 0
             /\ stats_.average_thai_confidence.num = 0

\* two records flagged Thai with different confidences have been processed,
\* one of them with a failed conversion
C26_TwoThaiRecords ==
    /\ meta_pc[1] = "idle"
    /\ stats_.thai_content_detected = 2
    /\ stats_.conversion_errors = 1
    /\ stats_.average_thai_confidence.den \notin {1, 4, 5, 7}

(***************************************************************************)
(* Properties of the gain control (SpecGain).                              *)
(***************************************************************************)
\* b lies between a and c, ends included
Between(a, b, c) == (a <= b /\ b <= c) \/ (c <= b /\ b <= a)

GainInRange(g) == g >= GainOne \div 10 /\ g <= 4 * GainOne

\* C27: target_gain_ and current_gain_ always lie within [0.1, 4.0]; in every
\* step current_gain_ stays where it is or moves toward the target then in
\* force without passing it, and a normalisation moves it by the smoothing
\* step, a thousandth of the distance.
C27_GainSmoothAndBounded ==
    /\ [](GainInRange(target_gain_) /\ GainInRange(current_gain_))
    /\ [][/\ Between(current_gain_, current_gain_', target_gain_')
          /\ audio_pc = "metrics" /\ audio_pc' = "stamp_lock"
               => /\ 1000 * Abs(current_gain_' - current_gain_)
                       <= Abs(target_gain_' - current_gain_)
                  /\ 1000 * (Abs(current_gain_' - current_gain_) + 1)
                       > Abs(target_gain_' - current_gain_)]_vars

\* two blocks of the quiet signal have been normalised: the target is 4.0 and
\* the gain has gone up twice, by 0.003 and by a little less
C27_TwiceTowardTarget ==
    /\ blocks_read = 2
    /\ audio_pc = "idle"
    /\ target_gain_ = 4 * GainOne
    /\ current_gain_ = GainOne + 300 + 299

(***************************************************************************)
(* Properties of the RMS history (SpecHistory).                            *)
(***************************************************************************)
\* the non-empty blocks update_quality_metrics has processed
BlocksProcessed == IF audio_pc = "metrics" THEN blocks_read - 1 ELSE blocks_read

\* C28: the RMS history holds min(blocks processed, 100) values, never more
\* than 100, and they are the RMS values of the most recent blocks in arrival
\* order: the last one is that of the latest block and, the signal rising by
\* one from block to block, each value is one above the value before it.
C28_HistoryIsFifoWindow ==
    /\ Len(rms_history_) = Min(BlocksProcessed, rms_history_size_)
    /\ \A i \in 1..Len(rms_history_) :
          rms_history_[i] = metrics_.volume_rms - (Len(rms_history_) - i)

\* more than 100 blocks have been processed: the window is full and the
\* first blocks' values are gone
C28_OldestEvicted ==
    /\ audio_pc = "idle"
    /\ blocks_read > rms_history_size_
    /\ Len(rms_history_) = rms_history_size_
    /\ rms_history_[1] > 2

(***************************************************************************)
(* Properties of the Buddhist calendar (SpecCalendar).                     *)
(***************************************************************************)
\* the year of a result is year + 543 (which no int is when the sum overflows)
IsYearPlus543(be_year, year) == year <= IntMax - 543 /\ be_year = year + 543

\* the result is the date (year + 543, month, day) when it is valid, and is
\* marked invalid otherwise
DateConverted(valid) ==
    LET result == util_call.result
    IN  /\ result.is_valid <=> valid
        /\ result.is_valid
             => /\ IsYearPlus543(result.year, util_call.year)
                /\ result.month = util_call.month
                /\ result.day = util_call.day

\* C29 as stated: for all integers y, m, d, gregorian_to_buddhist(y, m, d) is
\* valid exactly when m is in [1, 12] and d is in [1, 31], and a valid result
\* is (y + 543, m, d).
C29_ValidIffMonthAndDay ==
    util_call.op = "gregorian_to_buddhist"
        => DateConverted(util_call.month \in 1..12 /\ util_call.day \in 1..31)

\* C29, amended: for all integers y, m, d for which y + 543 is an int,
\* gregorian_to_buddhist(y, m, d) is valid exactly when y + 543 > 0, m is in
\* [1, 12] and d is in [1, 31], and a valid result is (y + 543, m, d).
C29_ValidIffYearMonthAndDay ==
    (util_call.op = "gregorian_to_buddhist" /\ util_call.year <= IntMax - 543)
        => DateConverted(/\ util_call.year > -543
                         /\ util_call.month \in 1..12
                         /\ util_call.day \in 1..31)

\* 1 January 543 BC (astronomical year -543), which would be year 0 of the
\* Buddhist era, has been converted: the result is marked invalid
C29_YearZeroRejected ==
    /\ util_call.op = "gregorian_to_buddhist"
    /\ util_call.year = -543 /\ util_call.month = 1 /\ util_call.day = 1
    /\ ~util_call.result.is_valid

(***************************************************************************)
(* Properties of the DLS generation (SpecMetaDls).                         *)
(***************************************************************************)
\* the one text the record stands for, by priority
TextByPriority(metadata) ==
    LET title == metadata[1]
        artist == metadata[2]
        station == metadata[3]
    IN  CASE title # <<>> /\ artist # <<>> -> title \o <<32, 45, 32>> \o artist
          [] title # <<>> /\ artist = <<>> -> title
          [] title = <<>> /\ artist # <<>> -> artist
          [] OTHER -> station

\* C30: generate_dls_from_metadata gives the DLS encoder exactly one text,
\* "title - artist" when both are present, else the title, else the artist,
\* and the station name only when both are empty; what it returns is what the
\* encoder returns for that text.
C30_TextByPriority ==
    [][meta_call'.op = "generate_dls_from_metadata"
         => LET text == TextByPriority(meta_call'.metadata)
                call == process_thai_text_on(current_segment_, text)
            IN  /\ dls_text' = text
                /\ meta_call'.threw = call.threw
                /\ ~call.threw => meta_call'.result = call.result]_vars

\* a record with an artist and a station but no title has been encoded: the
\* DLS carries the artist
C30_ArtistAlone ==
    /\ meta_call.op = "generate_dls_from_metadata"
    /\ meta_call.metadata = << <<>>, <<3585>>, <<32, 65>> >>
    /\ ~meta_call.threw
    /\ dls_text = <<3585>>

\* C31: when force_reconnect() returns on a running processor, the monitor is
\* not left waiting: neither inside the reconnect delay nor inside its
\* monitoring interval
C31_ForceReconnectWakes ==
    (last_call.op = "force_reconnect" /\ running_ /\ monitor_thread_ = "joinable")
        => mon_pc \notin {"waiting", "sleep"}

\* C32: update_config(config) with a configuration that has no primary URL is
\* rejected and get_config() returns what it returned before; with a primary
\* URL the call succeeds and get_config() returns the configuration given
C32_UpdateConfigValidates ==
    [][last_call'.op = "update_config" =>
          IF last_call'.arg.primary_url = ""
          THEN last_call'.ret = -1 /\ get_config' = get_config
          ELSE last_call'.ret = 0 /\ get_config' = last_call'.arg]_vars

\* update_config has rejected a configuration without primary URL whose
\* fallback list differs from the one in force, and the valid one is in force
C32_InvalidRejected ==
    /\ last_call.op = "update_config"
    /\ last_call.arg.primary_url = ""
    /\ last_call.ret = -1
    /\ get_config \in Configs
    /\ get_config.fallback_urls # last_call.arg.fallback_urls

is_running == running_
is_connected == connected_

\* C34: from the return of stop_stream() until the next start_stream(), that
\* is while the caller is outside stop_stream and no monitor thread exists,
\* is_running() and is_connected() are both false
C34_StoppedStaysStopped ==
    (ctrl_pc = "idle" /\ monitor_thread_ = "none")
        => ~is_running /\ ~is_connected

\* C35: a running, disconnected processor with several fallbacks, the last of
\* which is reachable at every attempt, eventually returns to Connected
C35_FailoverReconnects ==
    (/\ running_ /\ ~connected_
     /\ NumFallbacks > 1
     /\ metrics_.reconnect_count < MaxReconnectCount)
        ~> connected_

\* C36: no connection attempt of the monitor opens the input while a read of
\* get_samples is in progress on it
C36_NoOpenDuringRead ==
    [][(mon_pc \in {"open_primary", "open_fallback"} /\ mon_pc' = "health")
          => audio_pc # "read"]_vars

\* C37: on a processor that has been started with success and stopped, a
\* start_stream() that follows the return of stop_stream() with no other call
\* in between and finds a configured endpoint reachable returns true, with the
\* processor running and a monitor thread started
C37_RestartAfterStop ==
    [][(/\ last_call.op = "stop_stream"
        /\ metrics_.reconnect_count > 0
        /\ last_call'.op = "start_stream"
        /\ last_call'.reach \cap ConfiguredURLs # {})
          => /\ last_call'.ret
             /\ running_'
             /\ monitor_thread_' = "joinable"]_vars

\* C38: metrics.reconnect_count counts the monitor's reconnections only: a
\* start_stream() leaves it as it is (0 on the initial start), a connection
\* attempt of the monitor that succeeds adds exactly one, and one that fails
\* leaves it alone
C38_CountsReconnectionsOnly ==
    [][/\ last_call'.op = "start_stream"
            => /\ metrics_'.reconnect_count = metrics_.reconnect_count
               /\ (metrics_.reconnect_count = 0 => metrics_'.reconnect_count = 0)
       /\ (mon_pc \in {"open_primary", "open_fallback"} /\ mon_pc' # mon_pc)
            => metrics_'.reconnect_count =
                  (IF mon_pc' = "health" THEN metrics_.reconnect_count + 1
                   ELSE metrics_.reconnect_count)]_vars

\* C39: when get_samples has read from the input and returns n >= 0, the
\* caller's buffer holds exactly n samples, and n is at most the number asked
\* for
C39_BufferHoldsSamplesRead ==
    (/\ last_call.op = "get_samples"
     /\ last_call.tried = <<"read">>
     /\ last_call.ret >= 0)
        => /\ Len(samples) = last_call.ret
           /\ \E max_samples \in SampleRequests : last_call.ret <= max_samples

====
